---- MODULE Spec2Model ----
(***************************************************************************)
(* A model of the authentication core of the Sendlix Go SDK: the token     *)
(* cache of Auth (auth.go), Auth.GetAuthHeader and the unary client        *)
(* interceptor authInterceptor (client.go).                                *)
(*                                                                         *)
(* Every caller is a goroutine that makes calls one after another, either  *)
(* to Auth.GetAuthHeader directly or to an RPC that passes through         *)
(* authInterceptor.  All callers share one Auth, hence one a.token.        *)
(* GetAuthHeader takes no lock, so its loads of a.token, its reading of    *)
(* the clock and its store to a.token are separate steps that interleave   *)
(* with the steps of the other callers.  A local of a call is kept in the  *)
(* state only while the code can still read it.                            *)
(***************************************************************************)
EXTENDS Integers, Sequences, FiniteSets, TLC

\* ---------------------------------------------------------------- bounds

\* The clock runs over 0..MaxTime.
MaxTime == 2

\* The goroutines that call into the one shared Auth.
Callers == {"g1", "g2"}

\* Token strings the authentication service may answer with.
Tokens == {"tA", "tB"}

\* Expiry instants the authentication service may answer with.
Expiries == 1..(MaxTime + 1)

\* API keys given to NewAuth are strings of at most MaxKeyLen characters.
MaxKeyLen == 5

\* The characters of those keys: a letter, the separator, digits and signs.
Alphabet == {"a", ".", "0", "7", "-", "+"}

\* The feature clients a program makes on the one Auth.
Clients == {"email", "group"}

\* InsertEmailToGroup is called with at most MaxEmails entries.
MaxEmails == 2

\* Outgoing metadata a caller's context may already carry.
CallerMetadata == {<< >>, << <<"x-request-id", "7">> >>}

\* ------------------------------------------------------------ data types

\* Go's nil error.
NoErr == [status |-> "nil", msg |-> ""]

\* An error returned by the gRPC stub: it carries a status code.
StatusErr(code) == [status |-> code, msg |-> "rpc error: code = " \o code]

\* fmt.Errorf(prefix + "%v", err): a new plain error holding only the text.
Errorf(prefix, err) == [status |-> "none", msg |-> prefix \o err.msg]

\* AuthResponse of the authentication service.
Responses == [token : Tokens, expires : Expiries]

NoResp == [token |-> "", expires |-> 0]

\* A response whose expires field is not set: a nil *timestamppb.Timestamp.
NilTimestamp == -1

\* The responses in which the token or the expiry is missing.  Proto3 has no
\* required fields, so the stub decodes them without an error.
MalformedResponses ==
    [token : {""}, expires : Expiries \cup {NilTimestamp}]
      \cup [token : Tokens, expires : {NilTimestamp}]

\* timestamppb.Timestamp.AsTime of the response's expiry: the getters of a
\* nil Timestamp give 0, the Unix epoch, which no reading of the clock
\* precedes.
AsTime(ts) == IF ts = NilTimestamp THEN 0 ELSE ts

\* &tokenCache{token: ..., expiresAt: ...}
tokenCache(tok, exp) == [token |-> tok, expiresAt |-> exp]

\* The value of the pointer a.token: << >> is nil, <<c>> points to c.
NilToken == << >>

\* t.Before(u) of package time.
Before(t, u) == t < u

\* The values GetAuthHeader returns.
Header(k, v, e) == [key |-> k, value |-> v, err |-> e]

NoHeader == Header("", "", NoErr)

\* No exchange in flight.
NoReq == << >>

\* What an operation of a feature client returns: the response (<< >> is
\* nil) and the error.
OpResult(resp, err) == [resp |-> resp, err |-> err]

\* No operation of a feature client has returned.
NoOut == OpResult(<< >>, NoErr)

\* The local state of a caller that is not in a call.
IdleCaller ==
    [pc        |-> "idle",
     mode      |-> "none",   \* "direct": GetAuthHeader, "rpc": via interceptor
     cancelled |-> FALSE,    \* ctx.Done() of the call's context is closed
     tnow      |-> 0,        \* the value of time.Now() at auth.go:151
     req       |-> NoReq,    \* the exchange in flight (auth.go:156-165)
     resp      |-> NoResp,   \* resp of auth.go:165
     ret       |-> NoHeader, \* what GetAuthHeader returned
     md        |-> << >>,    \* outgoing metadata of the caller's context
     ctx       |-> << >>,    \* outgoing metadata the invoker was called with
     invoked   |-> NoErr,    \* what the wrapped invoker returned
     result    |-> NoErr,    \* what the interceptor returned
     op        |-> "",       \* the operation of a feature client under way
     api       |-> "",       \* the method of the client the program called
     args      |-> << >>,    \* the arguments of an insertion into a group
     call      |-> << >>,    \* what the stub called the interceptor with
     passed    |-> << >>,    \* what the interceptor called the invoker with
     out       |-> NoOut,    \* what that operation returned
     nAuth     |-> 0,        \* calls of GetAuthHeader made by this call
     nExch     |-> 0,        \* calls of GetJwtToken made by this call
     nInv      |-> 0]        \* calls of the wrapped invoker made by this call

\* ------------------------------------------------------- NewAuth, pure part

\* A Go string is the sequence of its characters.
Keys == UNION {[1..n -> Alphabet] : n \in 0..MaxKeyLen}

\* The key of the package documentation, "abc123.456".
DocKey == <<"a", "b", "c", "1", "2", "3", ".", "4", "5", "6">>

\* A key without a secret whose key ID is not a number, ".abc".
NoSecretKey == <<".", "a", "b", "c">>

\* Keys whose key ID is at the ends of the int64 range or one beyond them.
RangeKeys ==
    {<<"a", ".">> \o sign \o <<"9", "2", "2", "3", "3", "7", "2", "0", "3",
                               "6", "8", "5", "4", "7", "7", "5", "8", "0">>
                 \o <<last>> :
       sign \in {<< >>, <<"-">>}, last \in {"7", "8", "9"}}

\* The text of a string, for use in an error message.
RECURSIVE Join(_)
Join(s) == IF s = << >> THEN "" ELSE Head(s) \o Join(Tail(s))

\* strings.Index(s, sep) for a separator of one character, counted from 1;
\* 0 when sep does not occur in s.
IndexOf(s, sep) ==
    IF \E i \in 1..Len(s) : s[i] = sep
    THEN CHOOSE i \in 1..Len(s) :
           /\ s[i] = sep
           /\ \A j \in 1..(i - 1) : s[j] # sep
    ELSE 0

\* strings.SplitN(s, sep, 2): s cut at the first separator only.
SplitAtFirst(s, sep) ==
    LET i == IndexOf(s, sep) IN
    IF i = 0 THEN <<s>>
    ELSE <<SubSeq(s, 1, i - 1), SubSeq(s, i + 1, Len(s))>>

\* strings.Split(s, sep): s cut at every separator, so n separators give
\* n + 1 parts, empty parts included.
RECURSIVE Split(_, _)
Split(s, sep) ==
    LET i == IndexOf(s, sep) IN
    IF i = 0 THEN <<s>>
    ELSE <<SubSeq(s, 1, i - 1)>> \o Split(SubSeq(s, i + 1, Len(s)), sep)

\* The decimal digits.
Digits == <<"0", "1", "2", "3", "4", "5", "6", "7", "8", "9">>

IsDigit(c) == \E i \in 1..10 : Digits[i] = c

DigitVal(c) == (CHOOSE i \in 1..10 : Digits[i] = c) - 1

\* A digit string without its leading zeros; "0" for a string of zeros.
RECURSIVE StripZeros(_)
StripZeros(d) ==
    IF Len(d) > 1 /\ Head(d) = "0" THEN StripZeros(Tail(d)) ELSE d

\* The comparison of the lengths only.
NumeralGreaterByLength(a, b) == Len(a) > Len(b)

\* a > b for two digit strings without leading zeros.
RECURSIVE NumeralGreater(_, _)
NumeralGreater(a, b) ==
    IF Len(a) # Len(b) THEN Len(a) > Len(b)
    ELSE IF a = << >> THEN FALSE
    ELSE IF Head(a) # Head(b) THEN DigitVal(Head(a)) > DigitVal(Head(b))
    ELSE NumeralGreater(Tail(a), Tail(b))

\* 2^63 - 1 and 2^63, the largest magnitudes of an int64.
MaxInt64Numeral ==
    <<"9", "2", "2", "3", "3", "7", "2", "0", "3", "6",
      "8", "5", "4", "7", "7", "5", "8", "0", "7">>

MinInt64Numeral ==
    <<"9", "2", "2", "3", "3", "7", "2", "0", "3", "6",
      "8", "5", "4", "7", "7", "5", "8", "0", "8">>

\* An int64 as its sign and the digits of its magnitude without leading
\* zeros; zero has no sign.
Int64(neg, mag) == [neg |-> neg /\ mag # <<"0">>, mag |-> mag]

\* What strconv.ParseInt returns: a value and the text of its error, "" for
\* nil.
Parsed(val, err) == [val |-> val, err |-> err]

\* strconv.ParseInt(s, 10, 64): an optional sign followed by one or more
\* decimal digits, whose value fits an int64.
ParseInt(s) ==
    IF s = << >> THEN Parsed(Int64(FALSE, <<"0">>), "invalid syntax")
    ELSE
      LET neg  == Head(s) = "-"
          body == IF Head(s) \in {"+", "-"} THEN Tail(s) ELSE s
          mag  == StripZeros(body)
      IN  IF body = << >> \/ \E i \in 1..Len(body) : ~IsDigit(body[i])
          THEN Parsed(Int64(FALSE, <<"0">>), "invalid syntax")
          ELSE IF ~neg /\ NumeralGreater(mag, MaxInt64Numeral)
          THEN Parsed(Int64(FALSE, MaxInt64Numeral), "value out of range")
          ELSE IF neg /\ NumeralGreater(mag, MinInt64Numeral)
          THEN Parsed(Int64(TRUE, MinInt64Numeral), "value out of range")
          ELSE Parsed(Int64(neg, mag), "")

\* The error of strconv.ParseInt as %v prints it.
NumError(s, txt) ==
    [status |-> "none",
     msg    |-> "strconv.ParseInt: parsing \"" \o Join(s) \o "\": " \o txt]

\* fmt.Errorf(text) with no verb in text: a plain error holding the text.
NewError(text) == [status |-> "none", msg |-> text]

\* A *grpc.ClientConn as grpc.NewClient makes it: its target, whether its TLS
\* configuration skips the verification of the certificate, its user agent,
\* whether authInterceptor is installed, and whether it has been closed.
\* grpc.NewClient only records its arguments; it connects when the first
\* RPC is made.
ClientConn(target, skipVerify, userAgent, intercepted) ==
    [target |-> target, InsecureSkipVerify |-> skipVerify,
     userAgent |-> userAgent, intercepted |-> intercepted, state |-> "open"]

\* No connection: a nil *grpc.ClientConn.
NilConn == << >>

\* A constructor that waits until the connection is established
\* (grpc.WithBlock): it fails when the network is down.
GrpcDial(target, skipVerify, userAgent, intercepted, up) ==
    IF up
    THEN [conn |-> ClientConn(target, skipVerify, userAgent, intercepted),
          err  |-> NoErr]
    ELSE [conn |-> NilConn, err |-> StatusErr("Unavailable")]

\* grpc.NewClient(target, opts...) as auth.go:104-107 and client.go:110-114
\* call it: the connection is made idle, whether the network is up or not.
GrpcNewClient(target, skipVerify, userAgent, intercepted, up) ==
    [conn |-> ClientConn(target, skipVerify, userAgent, intercepted),
     err  |-> NoErr]

\* &Auth{apiKey: ..., keyID: ..., secret: ..., client: ...}; token is nil.
AuthOf(key, keyID, secret, conn) ==
    [apiKey |-> key, keyID |-> keyID, secret |-> secret, client |-> conn,
     token |-> NilToken]

\* return &Auth{}, err: an Auth with no field set comes with the error.
FailedWithAuth(err) ==
    [auth   |-> <<AuthOf(<< >>, Int64(FALSE, <<"0">>), << >>, NilConn)>>,
     err    |-> err,
     dialed |-> FALSE]

\* return nil, err: NewAuth's way out before it creates the connection.
Failed(err) == [auth |-> << >>, err |-> err, dialed |-> FALSE]

\* parts[len(parts)-1] where the code has parts[0].
SecretOfLast(parts) == parts[Len(parts)]

\* secret := parts[0]
SecretOf(parts) == parts[1]

\* NewAuth(apiKey): the Auth it returns (<< >> is nil), its error, and
\* whether it created the connection to the authentication service.  up
\* tells whether the network is up when NewAuth is called.
NewAuth(key, up) ==
    LET parts == Split(key, ".") IN
    IF Len(parts) # 2
    THEN Failed(NewError(
           "invalid API key format. Expected format: 'secret.keyID'"))
    ELSE IF SecretOf(parts) = << >>
    THEN Failed(NewError("invalid API key format. Secret cannot be empty"))
    ELSE
      LET keyID == ParseInt(parts[2]) IN
      IF keyID.err # ""
      THEN Failed(Errorf("invalid key ID: ", NumError(parts[2], keyID.err)))
      ELSE
        LET d == GrpcNewClient("api.sendlix.com:443", FALSE,
                               "sendlix-go-sdk/1.0.0", FALSE, up)
        IN  IF d.err # NoErr
            THEN Failed(Errorf("failed to connect to auth service: ", d.err))
            ELSE [auth   |-> <<AuthOf(key, keyID.val, SecretOf(parts),
                                      d.conn)>>,
                  err    |-> NoErr,
                  dialed |-> TRUE]

\* ----------------------------------------------------------- value types

\* Display names and addresses of an EmailAddress.
Names == {"", " ", "J", "John Doe", "Doe, John", "<x>", "a@b.c", "Jane"}

Emails == {"", "a@b.c", "john@example.com", "jane@example.com",
           "<x>", " ", "x", "John Doe"}

\* EmailAddress{}: the zero value.
ZeroAddress == [Email |-> "", Name |-> ""]

\* The receiver formatted whether or not it has a name.
StringAlwaysFormatted(e) == e.Name \o " <" \o e.Email \o ">"

\* EmailAddress.String: fmt.Sprintf("%s <%s>", e.Name, e.Email) when the
\* name is not empty, else the address alone.
String(e) ==
    IF e.Name # "" THEN e.Name \o " <" \o e.Email \o ">" ELSE e.Email

\* --------------------------------------------------- BaseClient, pure part

\* client.go:45-51: the value DefaultClientConfig() points to.
DefaultClientConfig ==
    [ServerAddress |-> "api.sendlix.com:443",
     UserAgent     |-> "sendlix-go-sdk/1.0.0",
     Insecure      |-> FALSE]

\* The configurations a program may make itself.
Configs ==
    {DefaultClientConfig,
     [ServerAddress |-> "custom.example.com:9090",
      UserAgent     |-> "custom-agent/2.0.0",
      Insecure      |-> TRUE],
     [ServerAddress |-> "localhost:50051",
      UserAgent     |-> "sendlix-go-sdk/1.0.0",
      Insecure      |-> FALSE]}

\* The values of the parameter auth IAuth: the nil interface, an interface
\* holding a nil *Auth, and an interface holding the Auth of NewAuth.
NilAuth == "nil"

TypedNilAuth == "(*Auth)(nil)"

TheAuth == "*Auth"

AuthArgs == {NilAuth, TypedNilAuth, TheAuth}

\* client.go:99-101: the configuration NewBaseClient works with, the object
\* of the caller (given) or a new one made by DefaultClientConfig().
EffectiveConfig(cfg) ==
    IF cfg = << >>
    THEN [given |-> FALSE, val |-> DefaultClientConfig]
    ELSE [given |-> TRUE, val |-> cfg[1]]

\* &BaseClient{conn: ..., auth: ..., config: ...}; ret is what the last call
\* of Close returned, << >> before any.
BaseClient(conn, auth, cfg) ==
    [conn |-> conn, auth |-> auth, config |-> cfg, ret |-> << >>]

\* &BaseClient{}: the zero value, which has no connection.
ZeroBaseClient == BaseClient(NilConn, NilAuth, << >>)

\* What a constructor of a client returns: the client (<< >> is nil) and
\* the error; with is the auth it was called with.
Constructed(auth, client, err) ==
    [with |-> auth, client |-> client, err |-> err]

\* The maker of a client made by a struct literal, not by a constructor.
Literal == "literal"

\* The client made from what grpc.NewClient returned (client.go:115-123).
Connected(auth, c, d) ==
    IF d.err # NoErr
    THEN Constructed(auth, << >>,
                     Errorf("failed to connect to server: ", d.err))
    ELSE Constructed(auth, <<BaseClient(d.conn, auth, <<c>>)>>, NoErr)

\* The nil auth accepted and the client made with it.
NewBaseClientUnchecked(auth, cfg, up) ==
    LET c == EffectiveConfig(cfg) IN
    Connected(auth, c, GrpcNewClient(c.val.ServerAddress, c.val.Insecure,
                                     c.val.UserAgent, TRUE, up))

\* client.go:93-124: NewBaseClient(auth, config), called when the network is
\* up or not.  auth == nil compares the interface, so a nil *Auth in it
\* passes.
NewBaseClient(auth, cfg, up) ==
    IF auth = NilAuth
    THEN Constructed(auth, << >>, NewError("authentication is required"))
    ELSE
      LET c == EffectiveConfig(cfg) IN
      Connected(auth, c, GrpcNewClient(c.val.ServerAddress, c.val.Insecure,
                                       c.val.UserAgent, TRUE, up))

\* The caller's configuration filled with the defaults.
ConfigAfterDefaults(cfg) ==
    IF cfg = << >> THEN cfg ELSE <<DefaultClientConfig>>

\* The caller's configuration after NewBaseClient, which only reads it.
ConfigAfter(cfg) == cfg

\* A panic of the Go runtime, as the outcome of a call.
Panic ==
    [status |-> "panic",
     msg    |-> "invalid memory address or nil pointer dereference"]

\* (*grpc.ClientConn).Close: the first call closes the connection and
\* returns nil, a later one returns ErrClientConnClosing; on a nil
\* connection it dereferences nil.
ConnClose(conn) ==
    IF conn = NilConn THEN [conn |-> conn, err |-> Panic]
    ELSE IF conn.state = "open"
    THEN [conn |-> [conn EXCEPT !.state = "closed"], err |-> NoErr]
    ELSE [conn |-> conn, err |-> StatusErr("Canceled")]

\* The cache of the client's Auth dropped by Close.
TokenAfterCloseCleared(cache) == NilToken

\* client.go:140-145: Close reads and closes c.conn and touches nothing of
\* c.auth, whose cache stays as it is.
TokenAfterClose(cache) == cache

\* Close without its test of c.conn.
ClosedUnguarded(bc) ==
    [bc EXCEPT !.conn = ConnClose(bc.conn).conn,
               !.ret = <<ConnClose(bc.conn).err>>]

\* client.go:140-145: the BaseClient after Close.
Closed(bc) ==
    IF bc.conn # NilConn
    THEN [bc EXCEPT !.conn = ConnClose(bc.conn).conn,
                    !.ret = <<ConnClose(bc.conn).err>>]
    ELSE [bc EXCEPT !.ret = <<NoErr>>]

\* ------------------------------------------------ feature clients, pure part

\* The text of the index i of a slice.
Itoa(i) == Digits[i + 1]

\* The arguments of the operations: addresses with and without an Email,
\* texts that are empty or not.
OpAddresses == {ZeroAddress, [Email |-> "a@b.c", Name |-> ""]}

OpTexts == {"", "x"}

\* MailOptions, without the fields SendEmail does not test.
MailOptions ==
    [From : OpAddresses, To : {<< >>, <<[Email |-> "c@d.e", Name |-> ""]>>},
     Subject : OpTexts, HTML : OpTexts, Text : OpTexts]

\* GroupMailData, without the fields SendGroupEmail does not test.
GroupMailData ==
    [GroupID : OpTexts, From : OpAddresses, Subject : OpTexts,
     HTML : OpTexts, Text : OpTexts]

\* EmailData values: one without an Email and two that differ.
InsertAddresses == OpAddresses \cup {[Email |-> "c@d.e", Name |-> "N"]}

\* []EmailData of at most MaxEmails entries.
EmailLists == UNION {[1..n -> InsertAddresses] : n \in 0..MaxEmails}

\* map[string]string: nil, and a map of one pair.
Substitutions == {<< >>, <<"company", "x">>}

\* The bytes of an EML message: none, and some.
EmlData == OpTexts

\* part_003:559-571: the checks of SendEmail, in their order.
ValidateSendEmail(options) ==
    IF options.From.Email = "" THEN NewError("from email is required")
    ELSE IF Len(options.To) = 0
    THEN NewError("at least one recipient is required")
    ELSE IF options.Subject = "" THEN NewError("subject is required")
    ELSE IF options.HTML = "" /\ options.Text = ""
    THEN NewError("either HTML or text content is required")
    ELSE NoErr

\* part_003:696-707: the checks of SendGroupEmail, in their order.
ValidateSendGroupEmail(data) ==
    IF data.GroupID = "" THEN NewError("group ID is required")
    ELSE IF data.From.Email = "" THEN NewError("from email is required")
    ELSE IF data.Subject = "" THEN NewError("subject is required")
    ELSE IF data.HTML = "" /\ data.Text = ""
    THEN NewError("either HTML or text content is required")
    ELSE NoErr

\* The loop run to its end, the error being that of the last entry without
\* an Email.
ValidateInsertLast(groupID, emails) ==
    IF groupID = "" THEN NewError("group ID is required")
    ELSE IF Len(emails) = 0 THEN NewError("at least one email is required")
    ELSE IF \E i \in 1..Len(emails) : emails[i].Email = ""
    THEN LET i == CHOOSE i \in 1..Len(emails) :
                    /\ emails[i].Email = ""
                    /\ \A j \in (i + 1)..Len(emails) : emails[j].Email # ""
         IN  NewError("email address is required for email at index "
                        \o Itoa(i - 1))
    ELSE NoErr

\* part_004:139-155: the checks of InsertEmailToGroup; the loop returns at
\* the first entry without an Email.
ValidateInsert(groupID, emails) ==
    IF groupID = "" THEN NewError("group ID is required")
    ELSE IF Len(emails) = 0 THEN NewError("at least one email is required")
    ELSE IF \E i \in 1..Len(emails) : emails[i].Email = ""
    THEN LET i == CHOOSE i \in 1..Len(emails) :
                    /\ emails[i].Email = ""
                    /\ \A j \in 1..(i - 1) : emails[j].Email # ""
         IN  NewError("email address is required for email at index "
                        \o Itoa(i - 1))
    ELSE NoErr

\* part_003:745-750
convertEmailAddress(a) == [Email |-> a.Email, Name |-> a.Name]

\* part_003:760-766
convertEmailAddressList(addrs) ==
    [i \in 1..Len(addrs) |-> convertEmailAddress(addrs[i])]

\* part_003:574-586: &pb.SendMailRequest{...}, without the optional fields.
SendMailRequest(options) ==
    [From    |-> convertEmailAddress(options.From),
     To      |-> convertEmailAddressList(options.To),
     Subject |-> options.Subject,
     Html    |-> options.HTML,
     Text    |-> options.Text]

\* part_003:645-647: &pb.EmlMailRequest{Mail: emlData}.
EmlMailRequest(emlData) == [Mail |-> emlData]

\* part_003:709-721: &pb.GroupMailData{...}.
GroupMailRequest(data) ==
    [GroupId |-> data.GroupID,
     Subject |-> data.Subject,
     From    |-> convertEmailAddress(data.From),
     Html    |-> data.HTML,
     Text    |-> data.Text]

\* part_004:147-156: pbEmails[i] = &pb.EmailData{Email: email.Email,
\* Name: email.Name} for every i.
pbEmails(emails) ==
    [i \in 1..Len(emails) |->
        [Email |-> emails[i].Email, Name |-> emails[i].Name]]

\* part_004:158-162: &pb.InsertEmailToGroupRequest{...}.
InsertEmailToGroupRequest(groupID, emails, substitutions) ==
    [Emails        |-> pbEmails(emails),
     GroupId       |-> groupID,
     Substitutions |-> substitutions]

\* part_004:246-249 and 310-313: &pb.RemoveEmailFromGroupRequest{...} and
\* &pb.CheckEmailInGroupRequest{...}.
GroupEmailRequest(groupID, email) == [Email |-> email, GroupId |-> groupID]

\* The entry given twice.
SingleListTwice(email) == <<email, email>>

\* part_004:202: []EmailData{email}.
SingleList(email) == <<email>>

\* The method of the stub that the operation op calls: c.client.SendEmail
\* (part_003:604), c.client.SendEmlEmail (part_003:653) and so on.
StubMethod(op) ==
    CASE op = "SendEmail"            -> "SendEmail"
      [] op = "SendEMLEmail"         -> "SendEmlEmail"
      [] op = "SendGroupEmail"       -> "SendGroupEmail"
      [] op = "InsertEmailToGroup"   -> "InsertEmailToGroup"
      [] op = "RemoveEmailFromGroup" -> "RemoveEmailFromGroup"
      [] op = "CheckEmailInGroup"    -> "CheckEmailInGroup"

\* The message the stub of the operation op has the reply written to.
ReplyOf(op) ==
    CASE op \in {"SendEmail", "SendEMLEmail", "SendGroupEmail"}
                                     -> "SendEmailResponse"
      [] op = "InsertEmailToGroup"   -> "InsertEmailToGroupResponse"
      [] op = "RemoveEmailFromGroup" -> "RemoveEmailFromGroupResponse"
      [] op = "CheckEmailInGroup"    -> "CheckEmailInGroupResponse"

\* No call of a stub.
NoCall == << >>

\* What the stub of a client calls the interceptor with (client.go:168):
\* the method, the request the operation built, the reply, the connection
\* of the client, and no call option, for the operations give none.
StubCall(op, req, cc) ==
    <<[method |-> StubMethod(op), req |-> req, reply |-> ReplyOf(op),
       cc |-> cc, opts |-> << >>]>>

\* client.go:179: invoker(ctx, method, req, reply, cc, opts...).
InvokerArgs(call) == call

\* part_004:239-244 and 303-308: the checks of RemoveEmailFromGroup and of
\* CheckEmailInGroup.
ValidateGroupEmail(groupID, email) ==
    IF groupID = "" THEN NewError("group ID is required")
    ELSE IF email = "" THEN NewError("email address is required")
    ELSE NoErr

VARIABLES
    now,       \* the wall clock read by time.Now()
    token,     \* a.token, the cache of the shared Auth
    g,         \* g[p]: the local state of caller p
    lastWrite, \* history: the response whose token was stored last
    apiKey,    \* the string given to NewAuth, a sequence of characters
    made,      \* what NewAuth returned: << >> before the call, <<result>> after
    addr,      \* an EmailAddress value
    str,       \* what addr.String() returned: << >> before the call
    reachable, \* whether the network lets a connection be established
    config,    \* the program's *ClientConfig: << >> is nil, <<c>> points to c
    clients    \* clients[c]: what the constructor of client c returned

\* The variables of the value types, which no call on a client changes.
typeVars == <<addr, str>>

\* The variables of the clients, which no call on the Auth changes.
clientVars == <<reachable, config, clients>>

\* The variables of the construction, which no call on the Auth changes.
ctorVars == <<apiKey, made, typeVars, clientVars>>

\* The variables of the calls on the Auth.
callVars == <<now, token, g, lastWrite>>

vars ==
    <<now, token, g, lastWrite, apiKey, made, addr, str,
      reachable, config, clients>>

\* ------------------------------------------------------------------ Init

\* No value of the value types is under consideration.
NoTypes == addr = ZeroAddress /\ str = << >>

\* The network is up and no client has been made.
NoClients ==
    /\ reachable = TRUE
    /\ config = << >>
    /\ clients = [c \in Clients |-> << >>]

\* NewAuth has returned an Auth, whose token field is nil (auth.go:114-119),
\* and no call on it has begun.
Init ==
    /\ NoTypes
    /\ NoClients
    /\ apiKey = DocKey
    /\ made = <<NewAuth(apiKey, reachable)>>
    /\ now = 0
    /\ token = NilToken
    /\ g = [p \in Callers |-> IdleCaller]
    /\ lastWrite = NoResp

\* --------------------------------------------------------------- helpers

\* g with the fields of caller p replaced by those of the record upd.
Set(p, upd) ==
    [g EXCEPT ![p] = [f \in DOMAIN g[p] |->
                        IF f \in DOMAIN upd THEN upd[f] ELSE g[p][f]]]

\* The comparison written the wrong way round.
IsValidReversed(c, t) == Before(c.expiresAt, t)

\* The comparison written as "not after".
IsValidInclusive(c, t) == ~Before(c.expiresAt, t)

\* auth.go:151: the cache entry c is valid at the instant t.
IsValid(c, t) == Before(t, c.expiresAt)

\* The cached token returned without its scheme.
HitHeaderRaw(c) == Header("authorization", c.token, NoErr)

\* auth.go:152: the header built from the cached token.
HitHeader(c) == Header("authorization", "Bearer " \o c.token, NoErr)

\* The header built from a.token instead of from resp.
FreshHeaderFromCache(resp, cache) ==
    Header("authorization", "Bearer " \o cache[1].token, NoErr)

\* auth.go:177: the header built from the response of this call's exchange.
\* cache is a.token at that moment, which the code does not read.
FreshHeader(resp, cache) ==
    Header("authorization", "Bearer " \o resp.token, NoErr)

\* The header name returned beside the error.
FailHeaderWithKey(err) ==
    Header("authorization", "", Errorf("failed to get JWT token: ", err))

\* auth.go:167: the values returned when the exchange failed.
FailHeader(err) == Header("", "", Errorf("failed to get JWT token: ", err))

\* The cache filled only when it is empty.
CacheAfterStoreIfAbsent(old, resp) ==
    IF old = NilToken
      THEN << tokenCache(resp.token, AsTime(resp.expires)) >>
      ELSE old

\* The token replaced and the expiry of the old entry kept.
CacheAfterStoreKeepsExpiry(old, resp) ==
    IF old = NilToken
      THEN << tokenCache(resp.token, AsTime(resp.expires)) >>
      ELSE << tokenCache(resp.token, old[1].expiresAt) >>

\* A response that has expired already is not stored.
CacheAfterStoreUnlessExpired(old, resp) ==
    IF Before(now, AsTime(resp.expires))
      THEN << tokenCache(resp.token, AsTime(resp.expires)) >>
      ELSE old

\* auth.go:171-175: the cache after a successful exchange.
CacheAfterStore(old, resp) == << tokenCache(resp.token, AsTime(resp.expires)) >>

\* The cache dropped when the exchange fails.
CacheAfterFailReset(old) == NilToken

\* auth.go:166-168: the failure path returns without assigning a.token.
CacheAfterFail(old) == old

\* An exchange that does not look at its context.
FailureCodesIgnoringCancel(cancelled) == {"Unavailable", "Unauthenticated"}

\* The status a failed GetJwtToken reports: the context's cancellation when
\* the context is done, else a transport or a service failure.
FailureCodes(cancelled) ==
    IF cancelled THEN {"Canceled"} ELSE {"Unavailable", "Unauthenticated"}

\* client.go:172: the error the interceptor returns when no header was got.
InterceptError(err) == Errorf("failed to get auth header: ", err)

\* The context returned by AppendToOutgoingContext thrown away.
AppendDiscarded(md, key, value) == md

\* A new outgoing context made of the header alone.
AppendReplacing(md, key, value) == << <<key, value>> >>

\* client.go:176: metadata.AppendToOutgoingContext(ctx, key, value).
AppendToOutgoingContext(md, key, value) == Append(md, <<key, value>>)

\* client.go:179: the interceptor returns what the invoker returned.
InterceptResult(r) == r

\* What the wrapped invoker may return.
InvokerResults == {NoErr, StatusErr("Internal")}

\* A miss that waits for the exchange of another caller instead of making
\* its own.
InvokedUnlessInFlight(p) ==
    IF \E q \in Callers \ {p} : g[q].pc \in {"rpc", "store"}
      THEN [pc |-> "chk"]
      ELSE [pc |-> "rpc", nExch |-> g[p].nExch + 1]

\* The request carrying the whole API key as its secret.
AuthRequestWholeKey(a) == [keyID |-> a.keyID, secret |-> a.apiKey]

\* auth.go:156-163: &pb.AuthRequest{Key: &pb.AuthRequest_ApiKey{ApiKey:
\* &pb.ApiKey{KeyID: a.keyID, Secret: a.secret}}}.
AuthRequest(a) == [keyID |-> a.keyID, secret |-> a.secret]

\* The exchange made over the connection of a client when there is one.
ExchangeConnOfClient(a, cl) ==
    IF \E c \in DOMAIN cl : cl[c] # << >> /\ cl[c][1].client # << >>
    THEN LET c == CHOOSE c \in DOMAIN cl :
                    cl[c] # << >> /\ cl[c][1].client # << >>
         IN  cl[c][1].client[1].conn
    ELSE a.client

\* auth.go:165: a.client is the stub made on the connection of NewAuth; cl,
\* the clients of the program, are not consulted.
ExchangeConn(a, cl) == a.client

\* A miss that gives up without an exchange while another caller holds the
\* error of a failed exchange.
InvokedUnlessFailed(p) ==
    IF \E q \in Callers \ {p} :
           g[q].pc \in {"icept", "done"} /\ g[q].ret.err # NoErr
      THEN [pc  |-> IF g[p].mode = "direct" THEN "done" ELSE "icept",
            ret |-> Header("", "", Errorf("failed to get JWT token: ",
                                          StatusErr("Unavailable")))]
      ELSE [pc |-> "rpc", nExch |-> g[p].nExch + 1,
            req |-> <<[request |-> [keyID  |-> made[1].auth[1].keyID,
                                    secret |-> made[1].auth[1].secret],
                       conn    |-> made[1].auth[1].client]>>]

\* auth.go:155-165: the request is built and GetJwtToken is invoked, whatever
\* the other callers are doing.
Invoked(p) ==
    [pc |-> "rpc", nExch |-> g[p].nExch + 1,
     req |-> <<[request |-> AuthRequest(made[1].auth[1]),
                conn    |-> ExchangeConn(made[1].auth[1], clients)]>>]

\* The interceptor going on to the invoker without a header.
AfterAuthFailureInvokes(p) ==
    [pc |-> "inv", nInv |-> g[p].nInv + 1]

\* The interceptor asking for the header again after a failure.
AfterAuthFailureRetries(p) ==
    [pc |-> "chk", nAuth |-> g[p].nAuth + 1]

\* The text "failed to ...: " an operation puts before the error of its RPC.
FailPrefix(op) ==
    CASE op = "SendEmail"            -> "failed to send email: "
      [] op = "SendEMLEmail"         -> "failed to send EML email: "
      [] op = "SendGroupEmail"       -> "failed to send group email: "
      [] op = "InsertEmailToGroup"   -> "failed to insert emails to group: "
      [] op = "RemoveEmailFromGroup" -> "failed to remove email from group: "
      [] op = "CheckEmailInGroup"    -> "failed to check email in group: "

\* What the operation op returns when its RPC has returned err: nil and the
\* wrapped error, or the response made of the reply (part_003:604-612 and
\* the like).  No operation is under way when the stub is called directly.
OpOut(op, err) ==
    IF op = "" THEN NoOut
    ELSE IF err # NoErr THEN OpResult(<< >>, Errorf(FailPrefix(op), err))
    ELSE OpResult(<<op>>, NoErr)

\* client.go:171-173: the interceptor gives up after a failed GetAuthHeader.
AfterAuthFailure(p) ==
    [pc |-> "done", result |-> InterceptError(g[p].ret.err),
     out |-> OpOut(g[p].op, InterceptError(g[p].ret.err))]

\* The step that ends GetAuthHeader with the values h: a direct call is
\* over, an RPC goes on in the interceptor (client.go:171).
Returned(p, h) ==
    [pc |-> IF g[p].mode = "direct" THEN "done" ELSE "icept", ret |-> h,
     cancelled |-> FALSE, tnow |-> 0, resp |-> NoResp, req |-> NoReq]

\* --------------------------------------------------------------- actions

\* The clock advances.
Tick ==
    /\ now < MaxTime
    /\ now' = now + 1
    /\ UNCHANGED <<token, g, lastWrite, ctorVars>>

\* A caller enters Auth.GetAuthHeader (auth.go:149).
CallGetAuthHeader(p) ==
    /\ g[p].pc = "idle"
    /\ g' = Set(p, [pc |-> "chk", mode |-> "direct", nAuth |-> 1])
    /\ UNCHANGED <<now, token, lastWrite, ctorVars>>

\* A caller issues an RPC: the interceptor is entered and calls
\* auth.GetAuthHeader first (client.go:168-170).
CallRPC(p) ==
    /\ g[p].pc = "idle"
    /\ g' = Set(p, [pc |-> "chk", mode |-> "rpc", nAuth |-> 1])
    /\ UNCHANGED <<now, token, lastWrite, ctorVars>>

\* The caller's context is cancelled.  GetAuthHeader reads the context only
\* by passing it to GetJwtToken, so a cancellation made earlier in the call
\* is the same as one made at the first of these places.
CancelCtx(p) ==
    /\ g[p].pc \in {"hit", "req", "rpc"}
    /\ ~g[p].cancelled
    /\ g' = Set(p, [cancelled |-> TRUE])
    /\ UNCHANGED <<now, token, lastWrite, ctorVars>>

\* auth.go:151, a.token != nil: nil skips to the exchange.
CheckNil(p) ==
    /\ g[p].pc = "chk"
    /\ g' = Set(p, [pc |-> IF token = NilToken THEN "req" ELSE "now"])
    /\ UNCHANGED <<now, token, lastWrite, ctorVars>>

\* auth.go:151, time.Now().
ReadClock(p) ==
    /\ g[p].pc = "now"
    /\ g' = Set(p, [pc |-> "exp", tnow |-> now])
    /\ UNCHANGED <<now, token, lastWrite, ctorVars>>

\* auth.go:151, .Before(a.token.expiresAt): a.token is loaded again.
CheckExpiry(p) ==
    /\ g[p].pc = "exp"
    /\ g' = Set(p, [pc |-> IF IsValid(token[1], g[p].tnow) THEN "hit" ELSE "req",
                    tnow |-> 0])
    /\ UNCHANGED <<now, token, lastWrite, ctorVars>>

\* auth.go:152: a.token is loaded once more and its token is returned.
ReturnCached(p) ==
    /\ g[p].pc = "hit"
    /\ g' = Set(p, Returned(p, HitHeader(token[1])))
    /\ UNCHANGED <<now, token, lastWrite, ctorVars>>

\* auth.go:156-165: GetJwtToken is called.
InvokeExchange(p) ==
    /\ g[p].pc = "req"
    /\ g' = Set(p, Invoked(p))
    /\ UNCHANGED <<now, token, lastWrite, ctorVars>>

\* auth.go:165: the exchange answers with a token and its expiry.
ExchangeSucceeds(p) ==
    /\ g[p].pc = "rpc"
    /\ ~g[p].cancelled
    /\ reachable
    /\ \E r \in Responses :
         g' = Set(p, [pc |-> "store", resp |-> r, req |-> NoReq])
    /\ UNCHANGED <<now, token, lastWrite, ctorVars>>

\* auth.go:165: the exchange answers, without an error, with a response in
\* which the token or the expiry is missing.
ExchangeAnswersMalformed(p) ==
    /\ g[p].pc = "rpc"
    /\ ~g[p].cancelled
    /\ reachable
    /\ \E r \in MalformedResponses :
         g' = Set(p, [pc |-> "store", resp |-> r, req |-> NoReq])
    /\ UNCHANGED <<now, token, lastWrite, ctorVars>>

\* auth.go:165-168: the exchange fails and GetAuthHeader returns the error.
ExchangeFails(p) ==
    /\ g[p].pc = "rpc"
    /\ \E code \in FailureCodes(g[p].cancelled) :
         /\ ~reachable => code \in {"Canceled", "Unavailable"}
         /\ g' = Set(p, Returned(p, FailHeader(StatusErr(code))))
    /\ token' = CacheAfterFail(token)
    /\ UNCHANGED <<now, lastWrite, ctorVars>>

\* auth.go:171-175: a.token is assigned the new cache entry.
Store(p) ==
    /\ g[p].pc = "store"
    /\ token' = CacheAfterStore(token, g[p].resp)
    /\ lastWrite' = g[p].resp
    /\ g' = Set(p, [pc |-> "fin"])
    /\ UNCHANGED <<now, ctorVars>>

\* auth.go:177: the header of the response is returned.
ReturnFresh(p) ==
    /\ g[p].pc = "fin"
    /\ g' = Set(p, Returned(p, FreshHeader(g[p].resp, token)))
    /\ UNCHANGED <<now, token, lastWrite, ctorVars>>

\* client.go:171-173: no header, the interceptor returns the error.
InterceptFails(p) ==
    /\ g[p].pc = "icept"
    /\ g[p].ret.err # NoErr
    /\ g' = Set(p, AfterAuthFailure(p))
    /\ UNCHANGED <<now, token, lastWrite, ctorVars>>

\* client.go:176-179: the header is appended to the outgoing metadata of the
\* caller's context and the invoker is called with the new context.
InterceptInvokes(p) ==
    /\ g[p].pc = "icept"
    /\ g[p].ret.err = NoErr
    /\ \E m \in CallerMetadata :
         g' = Set(p, [pc |-> "inv", nInv |-> g[p].nInv + 1, md |-> m,
                      passed |-> InvokerArgs(g[p].call),
                      ctx |-> AppendToOutgoingContext(m, g[p].ret.key,
                                                      g[p].ret.value)])
    /\ UNCHANGED <<now, token, lastWrite, ctorVars>>

\* client.go:179: the invoker returns and the interceptor returns its result.
InvokerReturns(p) ==
    /\ g[p].pc = "inv"
    /\ \E r \in InvokerResults :
         g' = Set(p, [pc |-> "done", invoked |-> r,
                      result |-> InterceptResult(r),
                      out |-> OpOut(g[p].op, InterceptResult(r))])
    /\ UNCHANGED <<now, token, lastWrite, ctorVars>>

\* The caller has its results and is ready for its next call.
Finish(p) ==
    /\ g[p].pc = "done"
    /\ g' = [g EXCEPT ![p] = IdleCaller]
    /\ UNCHANGED <<now, token, lastWrite, ctorVars>>

\* The steps of caller p's own call.
CallStep(p) ==
    \/ CheckNil(p)
    \/ ReadClock(p)
    \/ CheckExpiry(p)
    \/ ReturnCached(p)
    \/ InvokeExchange(p)
    \/ ExchangeSucceeds(p)
    \/ ExchangeFails(p)
    \/ Store(p)
    \/ ReturnFresh(p)
    \/ InterceptFails(p)
    \/ InterceptInvokes(p)
    \/ InvokerReturns(p)

Next ==
    \/ Tick
    \/ \E p \in Callers : CallGetAuthHeader(p)
    \/ \E p \in Callers : CallRPC(p)
    \/ \E p \in Callers : CancelCtx(p)
    \/ \E p \in Callers : CallStep(p)
    \/ \E p \in Callers : Finish(p)

Spec == Init /\ [][Next]_vars

\* The same program with a service that may also leave fields out.
NextMalformed ==
    \/ Next
    \/ \E p \in Callers : ExchangeAnswersMalformed(p)

SpecMalformed == Init /\ [][NextMalformed]_vars

\* ------------------------------------------------------------ construction

\* A program is about to call NewAuth with some key.
InitNewAuth ==
    /\ apiKey \in Keys \cup RangeKeys \cup {DocKey, NoSecretKey}
    /\ made = << >>
    /\ NoTypes
    /\ NoClients
    /\ now = 0
    /\ token = NilToken
    /\ g = [p \in Callers |-> IdleCaller]
    /\ lastWrite = NoResp

\* auth.go:81-120: the call of NewAuth, which has no state but its result.
CallNewAuth ==
    /\ made = << >>
    /\ made' = <<NewAuth(apiKey, reachable)>>
    /\ UNCHANGED <<apiKey, callVars, typeVars, clientVars>>

NextNewAuth == CallNewAuth

SpecNewAuth == InitNewAuth /\ [][NextNewAuth]_vars

\* ------------------------------------------------------------ value types

\* A program holds an EmailAddress and is about to format it.
InitTypes ==
    /\ NoClients
    /\ addr \in [Email : Emails, Name : Names]
    /\ str = << >>
    /\ apiKey = DocKey
    /\ made = <<NewAuth(apiKey, reachable)>>
    /\ now = 0
    /\ token = NilToken
    /\ g = [p \in Callers |-> IdleCaller]
    /\ lastWrite = NoResp

\* The call of addr.String().
CallString ==
    /\ str = << >>
    /\ str' = <<String(addr)>>
    /\ UNCHANGED <<addr, apiKey, made, callVars, clientVars>>

NextTypes == CallString

SpecTypes == InitTypes /\ [][NextTypes]_vars

\* ---------------------------------------------------------------- clients

\* The configuration arguments of a program: nil or a pointer to its object.
ConfigArgs == {<< >>} \cup {<<c>> : c \in Configs}

\* A program has its Auth and a configuration or none, has made no client,
\* and the network is up or down.
InitClient ==
    /\ reachable \in BOOLEAN
    /\ config \in ConfigArgs
    /\ clients = [c \in Clients |-> << >>]
    /\ NoTypes
    /\ apiKey = DocKey
    /\ made = <<NewAuth(apiKey, reachable)>>
    /\ now = 0
    /\ token = NilToken
    /\ g = [p \in Callers |-> IdleCaller]
    /\ lastWrite = NoResp

\* The client c of the program, when the constructor returned one.
HasClient(c) == clients[c] # << >> /\ clients[c][1].client # << >>

\* NewEmailClient(auth, config) and NewGroupClient(auth, config): both return
\* what NewBaseClient(auth, config) returns, wrapped with the stub of the
\* service (part_003:335-346, part_004:45-56).
CallNewClient(c) ==
    /\ clients[c] = << >>
    /\ \E a \in AuthArgs :
         clients' = [clients EXCEPT
                       ![c] = <<NewBaseClient(a, config, reachable)>>]
    /\ config' = ConfigAfter(config)
    /\ UNCHANGED <<reachable, apiKey, made, typeVars, callVars>>

\* A program makes a client by the literal &BaseClient{}.
MakeZeroClient(c) ==
    /\ clients[c] = << >>
    /\ clients' = [clients EXCEPT
                     ![c] = <<Constructed(Literal, <<ZeroBaseClient>>, NoErr)>>]
    /\ UNCHANGED <<reachable, config, apiKey, made, typeVars, callVars>>

\* client.go:140-145: client.Close().
Close(c) ==
    /\ HasClient(c)
    /\ clients' = [clients EXCEPT
                     ![c][1].client[1] = Closed(clients[c][1].client[1])]
    /\ token' = TokenAfterClose(token)
    /\ UNCHANGED <<reachable, config, apiKey, made, typeVars,
                   now, g, lastWrite>>

\* The client c can carry an RPC: it has an open connection, and its auth is
\* the Auth.
Usable(c) ==
    /\ HasClient(c)
    /\ clients[c][1].client[1].conn # NilConn
    /\ clients[c][1].client[1].conn.state = "open"
    /\ clients[c][1].client[1].auth = TheAuth

\* The one goroutine of a program that makes clients and uses them.
Main == "g1"

\* An RPC made through the stub of client c.
CallRPCThrough(c) ==
    /\ Usable(c)
    /\ CallRPC(Main)

NextClient ==
    \/ \E c \in Clients : CallNewClient(c)
    \/ \E c \in Clients : MakeZeroClient(c)
    \/ \E c \in Clients : Close(c)
    \/ \E c \in Clients : CallRPCThrough(c)
    \/ CallGetAuthHeader(Main)
    \/ CancelCtx(Main)
    \/ CallStep(Main)
    \/ Finish(Main)
    \/ Tick

SpecClient == InitClient /\ [][NextClient]_vars

\* ------------------------------------------------------- feature clients

\* A program has made its two clients with a nil config and has called
\* nothing on them.
InitOps ==
    /\ reachable = TRUE
    /\ config = << >>
    /\ clients = [c \in Clients |-> <<NewBaseClient(TheAuth, config,
                                                    reachable)>>]
    /\ NoTypes
    /\ apiKey = DocKey
    /\ made = <<NewAuth(apiKey, reachable)>>
    /\ now = 0
    /\ token = NilToken
    /\ g = [p \in Callers |-> IdleCaller]
    /\ lastWrite = NoResp

\* The operation makes its RPC although its arguments were rejected.
BegunAfterRPC(op, err) ==
    IF err # NoErr
    THEN [pc |-> "chk", mode |-> "rpc", nAuth |-> 1, op |-> op,
          out |-> OpResult(<< >>, err)]
    ELSE [pc |-> "chk", mode |-> "rpc", nAuth |-> 1, op |-> op]

\* The operation op after its checks, which gave err: it has returned nil
\* and err, or it has built its request and called the stub, which enters
\* the interceptor (client.go:168-170).
Begun(op, err) ==
    IF err # NoErr
    THEN [pc |-> "done", op |-> op, out |-> OpResult(<< >>, err)]
    ELSE [pc |-> "chk", mode |-> "rpc", nAuth |-> 1, op |-> op]

\* The method api of client c is called by the caller p with the arguments
\* args: its operation op has made its checks, which gave err, and, these
\* passed, has built the request req and called the stub with it.
Calls(p, c, api, args, op, err, req) ==
    /\ g[p].pc = "idle"
    /\ Usable(c)
    /\ g' = Set(p, Begun(op, err)
                     @@ [api  |-> api,
                         args |-> args,
                         call |-> IF err # NoErr THEN NoCall
                                  ELSE StubCall(op, req,
                                                clients[c][1].client[1].conn)])
    /\ UNCHANGED <<now, token, lastWrite, ctorVars>>

\* part_003:558-613
SendEmail(p) ==
    \E options \in MailOptions :
       Calls(p, "email", "SendEmail", << >>, "SendEmail",
             ValidateSendEmail(options), SendMailRequest(options))

\* part_003:644-662: SendEMLEmail checks nothing.
SendEMLEmail(p) ==
    \E emlData \in EmlData :
       Calls(p, "email", "SendEMLEmail", << >>, "SendEMLEmail",
             NoErr, EmlMailRequest(emlData))

\* part_003:695-732
SendGroupEmail(p) ==
    \E data \in GroupMailData :
       Calls(p, "email", "SendGroupEmail", << >>, "SendGroupEmail",
             ValidateSendGroupEmail(data), GroupMailRequest(data))

\* part_004:138-174: InsertEmailToGroup(ctx, groupID, emails, substitutions)
\* called as the method api with the arguments args.
InsertInto(p, api, args, groupID, emails, substitutions) ==
    Calls(p, "group", api, args, "InsertEmailToGroup",
          ValidateInsert(groupID, emails),
          InsertEmailToGroupRequest(groupID, emails, substitutions))

\* part_004:138: the program calls InsertEmailToGroup.
InsertEmailToGroup(p) ==
    \E groupID \in OpTexts, emails \in EmailLists, subs \in Substitutions :
       InsertInto(p, "InsertEmailToGroup",
                  <<[groupID |-> groupID, emails |-> emails,
                     substitutions |-> subs]>>,
                  groupID, emails, subs)

\* part_004:201-203: the program calls InsertSingleEmailToGroup, which calls
\* InsertEmailToGroup with the one entry as the list.
InsertSingleEmailToGroup(p) ==
    \E groupID \in OpTexts, email \in InsertAddresses, subs \in Substitutions :
       InsertInto(p, "InsertSingleEmailToGroup",
                  <<[groupID |-> groupID, email |-> email,
                     substitutions |-> subs]>>,
                  groupID, SingleList(email), subs)

\* part_004:238-261
RemoveEmailFromGroup(p) ==
    \E groupID \in OpTexts, email \in OpTexts :
       Calls(p, "group", "RemoveEmailFromGroup", << >>, "RemoveEmailFromGroup",
             ValidateGroupEmail(groupID, email),
             GroupEmailRequest(groupID, email))

\* part_004:302-323
CheckEmailInGroup(p) ==
    \E groupID \in OpTexts, email \in OpTexts :
       Calls(p, "group", "CheckEmailInGroup", << >>, "CheckEmailInGroup",
             ValidateGroupEmail(groupID, email),
             GroupEmailRequest(groupID, email))

NextOps ==
    \/ SendEmail(Main)
    \/ SendEMLEmail(Main)
    \/ SendGroupEmail(Main)
    \/ InsertEmailToGroup(Main)
    \/ InsertSingleEmailToGroup(Main)
    \/ RemoveEmailFromGroup(Main)
    \/ CheckEmailInGroup(Main)
    \/ CancelCtx(Main)
    \/ CallStep(Main)
    \/ Finish(Main)
    \/ Tick

SpecOps == InitOps /\ [][NextOps]_vars

\* A second goroutine of the program.
Other == "g2"

\* A program whose two goroutines use the two clients, made on the one
\* Auth: the one sends EML messages through the EmailClient, the other asks
\* the GroupClient about an address, and either client may be closed at any
\* moment.  All of it happens within one reading of the clock, before any
\* token of the service expires.
NextShared ==
    \/ SendEMLEmail(Main)
    \/ CheckEmailInGroup(Other)
    \/ \E c \in Clients : Close(c)
    \/ \E p \in Callers : CallStep(p)
    \/ \E p \in Callers : Finish(p)

SpecShared == InitOps /\ [][NextShared]_vars

\* ---------------------------------------------------------------- claims

\* The cache holds a token that is valid at the instant t.
CacheValidAt(t) == token # NilToken /\ t < token[1].expiresAt

\* The cache entry made of the response r.
EntryOf(r) == << [token |-> r.token, expiresAt |-> r.expires] >>

\* Caller p leaves the place pc in this step.
Leaves(p, place) == g[p].pc = place /\ g'[p].pc # place

\* GetAuthHeader of caller p has returned.
HasReturned(p) == g[p].pc \in {"icept", "inv", "done"}

\* The pair <<k, v>> is in the metadata md.
Carries(md, k, v) == \E i \in 1..Len(md) : md[i] = <<k, v>>

C2_CacheMiss ==
    [][\A p \in Callers :
         /\ (Leaves(p, "chk") /\ token = NilToken) => g'[p].pc = "req"
         /\ (Leaves(p, "exp") /\ ~CacheValidAt(g[p].tnow)) => g'[p].pc = "req"
         /\ Leaves(p, "req") => g'[p].pc = "rpc" /\ g'[p].nExch = 1
         /\ g'[p].pc \in {"rpc", "store", "fin"} => g'[p].nExch = 1
         /\ Leaves(p, "store")
              => /\ g'[p].pc = "fin"
                 /\ token' = EntryOf(g[p].resp)
         /\ Leaves(p, "fin")
              => /\ HasReturned(p)'
                 /\ g'[p].ret = [key   |-> "authorization",
                                 value |-> "Bearer " \o g[p].resp.token,
                                 err   |-> NoErr]
                 /\ g'[p].nExch = 1
         /\ (Leaves(p, "exp") /\ token = EntryOf(lastWrite)
                              /\ g[p].tnow < lastWrite.expires)
              => g'[p].pc = "hit" /\ g'[p].nExch = 0]_vars

\* A direct call has made one exchange, the cache holds its response and
\* the header it returned is that of the cached token.
C2_Witness ==
    \E p \in Callers :
        /\ g[p].pc = "done" /\ g[p].mode = "direct"
        /\ g[p].nExch = 1 /\ g[p].ret.err = NoErr
        /\ lastWrite # NoResp /\ token = EntryOf(lastWrite)
        /\ g[p].ret.value = "Bearer " \o lastWrite.token

\* C3: when GetJwtToken fails, GetAuthHeader returns an error with empty key
\* and empty value and the step leaves the cache as it was, be it absent,
\* stale or valid.
C3_FailureKeepsCache ==
    [][\A p \in Callers :
         (g[p].pc = "rpc" /\ g'[p].pc \notin {"rpc", "store"})
            => /\ HasReturned(p)'
               /\ g'[p].ret.err # NoErr
               /\ g'[p].ret.key = ""
               /\ g'[p].ret.value = ""
               /\ token' = token]_vars

\* A call has failed and the cache still holds a token that is valid now.
C3_Witness ==
    \E p \in Callers :
        /\ g[p].pc = "done"
        /\ g[p].nExch = 1 /\ g[p].ret.err # NoErr
        /\ CacheValidAt(now)

\* C4: in every call through the interceptor in which GetAuthHeader returned
\* an error, the invoker is not called and the interceptor returns an error
\* made from that error.
C4_NoInvokeOnAuthError ==
    \A p \in Callers :
        (g[p].mode = "rpc" /\ HasReturned(p) /\ g[p].ret.err # NoErr)
           => /\ g[p].nInv = 0
              /\ g[p].pc # "inv"
              /\ g[p].pc = "done"
                   => /\ g[p].result # NoErr
                      /\ g[p].result.msg =
                           "failed to get auth header: " \o g[p].ret.err.msg

\* An RPC has ended with the error of a failed exchange.
C4_Witness ==
    \E p \in Callers :
        /\ g[p].pc = "done" /\ g[p].mode = "rpc"
        /\ g[p].ret.err # NoErr
        /\ g[p].nInv = 0

\* C5: in every call through the interceptor GetAuthHeader is called once,
\* the invoker is called only after GetAuthHeader has returned without
\* error, then exactly once and with outgoing metadata that carries the
\* returned pair, and the interceptor returns what the invoker returned.
C5_HeaderThenInvoke ==
    \A p \in Callers :
        g[p].mode = "rpc"
           => /\ g[p].nAuth = 1
              /\ g[p].nInv \in {0, 1}
              /\ g[p].nInv = 1 <=> (g[p].pc \in {"inv", "done"}
                                     /\ g[p].ret.err = NoErr)
              /\ g[p].nInv = 1
                   => Carries(g[p].ctx, g[p].ret.key, g[p].ret.value)
              /\ (g[p].pc = "done" /\ g[p].ret.err = NoErr)
                   => g[p].result = g[p].invoked

\* An RPC whose invoker was called with the header has ended with the
\* invoker's error.
C5_Witness ==
    \E p \in Callers :
        /\ g[p].pc = "done" /\ g[p].mode = "rpc"
        /\ g[p].nInv = 1
        /\ Carries(g[p].ctx, "authorization", g[p].ret.value)
        /\ g[p].invoked = StatusErr("Internal")
        /\ g[p].result = g[p].invoked

\* C6 as stated: no call of GetJwtToken is made while the cache holds a
\* token that is valid now, and a call that found the cache invalid makes
\* exactly one.
C6_AsStated ==
    [][\A p \in Callers :
         /\ Leaves(p, "req") => ~CacheValidAt(now)
         /\ g'[p].pc \in {"rpc", "store", "fin"} => g'[p].nExch = 1]_vars

\* C6, amended: every call decides by its own validity check.  It goes on
\* to GetJwtToken only from a check that found the cache nil or found its
\* reading of the clock not before the expiry it loaded, and then calls it
\* exactly once; it takes the cached path only from a check that found its
\* reading of the clock before the expiry it loaded, and then calls it not
\* at all.  (Another call may store a valid token between the check and
\* the call of GetJwtToken.)
C6_PerCallCheck ==
    [][\A p \in Callers :
         /\ (g[p].pc # "req" /\ g'[p].pc = "req")
              => \/ g[p].pc = "chk" /\ token = NilToken
                 \/ g[p].pc = "exp" /\ ~(g[p].tnow < token[1].expiresAt)
         /\ (g[p].pc # "hit" /\ g'[p].pc = "hit")
              => g[p].pc = "exp" /\ g[p].tnow < token[1].expiresAt
         /\ (g[p].pc # "rpc" /\ g'[p].pc = "rpc")
              => g[p].pc = "req" /\ g'[p].nExch = 1
         /\ g'[p].pc = "hit" => g'[p].nExch = 0
         /\ (HasReturned(p)' /\ g'[p].ret.err = NoErr)
              => g'[p].nExch \in {0, 1}
         /\ (HasReturned(p)' /\ g'[p].ret.err # NoErr) => g'[p].nExch = 1]_vars

\* A call is about to call GetJwtToken although the cache now holds a token
\* that another call stored and that is valid.
C6_Witness ==
    \E p \in Callers :
        /\ g[p].pc = "req"
        /\ CacheValidAt(now)

\* C7: a call that has found the cache invalid calls GetJwtToken itself,
\* whatever the other calls are doing, so two such calls make two calls of
\* GetJwtToken; and a call that is under way can always take its next step.
C7_NoDeduplication ==
    [][/\ \A p \in Callers :
            /\ Leaves(p, "req") => g'[p].pc = "rpc" /\ g'[p].nExch = 1
            /\ g[p].pc \in {"rpc", "store", "fin"} => g[p].nExch = 1
       /\ \A p \in Callers :
            g[p].pc \notin {"idle", "done"} => ENABLED CallStep(p)]_vars

\* Both callers found the cache invalid and each has its own exchange in
\* flight.
C7_Witness ==
    \A p \in Callers : g[p].pc = "rpc" /\ g[p].nExch = 1

\* C8: once a token has been stored, the cache is exactly the token and the
\* expiry of the response that was stored last.
C8_LastWriterWins ==
    lastWrite # NoResp => token = EntryOf(lastWrite)

\* Two calls have both stored their different responses and the cache holds
\* the one stored last.
C8_Witness ==
    \E p, q \in Callers :
        /\ p # q
        /\ g[p].pc = "fin" /\ g[q].pc = "fin"
        /\ g[p].resp.token # g[q].resp.token
        /\ g[p].resp.expires # g[q].resp.expires
        /\ lastWrite = g[q].resp
        /\ token = EntryOf(g[q].resp)

\* C9: a call whose exchange succeeded returns the header of the token of
\* its own response, whatever the cache holds when it returns.
C9_OwnToken ==
    [][\A p \in Callers :
         Leaves(p, "fin")
            => g'[p].ret = [key   |-> "authorization",
                            value |-> "Bearer " \o g[p].resp.token,
                            err   |-> NoErr]]_vars

\* A call has returned the header of its own exchange although the cache
\* holds the token of another call.
C9_Witness ==
    \E p \in Callers :
        /\ g[p].pc = "done"
        /\ g[p].nExch = 1 /\ g[p].ret.err = NoErr
        /\ token # NilToken
        /\ g[p].ret.value # "Bearer " \o token[1].token

\* C10: the cache is nil until a response has been stored, only the store
\* of a response makes it present, once present no step makes it nil, and
\* it never holds more than one entry.
C10_Monotone ==
    [][/\ lastWrite = NoResp => token = NilToken
       /\ lastWrite' = NoResp => token' = NilToken
       /\ (token = NilToken /\ token' # NilToken)
            => \E p \in Callers : Leaves(p, "store")
       /\ token # NilToken => token' # NilToken
       /\ Len(token') <= 1]_vars

\* A cancelled call has failed and the cache still holds a token.
C10_Witness ==
    \E p \in Callers :
        /\ g[p].pc = "done"
        /\ g[p].ret.err = Errorf("failed to get JWT token: ",
                                 StatusErr("Canceled"))
        /\ token # NilToken

\* C11: whenever GetAuthHeader has returned, either the error is nil, the
\* key is "authorization" and the value is "Bearer " followed by a token of
\* the service, or the error is not nil and key and value are empty.
C11_HeaderShape ==
    \A p \in Callers :
        HasReturned(p)
           => IF g[p].ret.err = NoErr
                THEN /\ g[p].ret.key = "authorization"
                     /\ \E t \in Tokens : g[p].ret.value = "Bearer " \o t
                ELSE /\ g[p].ret.key = ""
                     /\ g[p].ret.value = ""

\* One call has returned the cached token, one a fresh token and the call
\* now finished has failed.
C11_Witness ==
    \E p, q \in Callers :
        /\ g[p].pc = "done" /\ g[p].ret.err = NoErr /\ g[p].nExch = 0
        /\ g[p].ret.value = "Bearer tA"
        /\ g[q].pc = "done" /\ g[q].ret.err # NoErr
        /\ g[q].ret.key = ""

\* C13: the expiry check takes the cached path exactly when the call's
\* reading of the clock is strictly before the expiry of the cached entry;
\* a reading equal to the expiry, or later, goes on to the exchange, and so
\* does a nil cache.
C13_StrictValidity ==
    [][\A p \in Callers :
         /\ Leaves(p, "exp")
              => /\ g'[p].pc = "hit" <=> g[p].tnow < token[1].expiresAt
                 /\ g'[p].pc = "req" <=> g[p].tnow >= token[1].expiresAt
                 /\ g[p].tnow = token[1].expiresAt => g'[p].pc = "req"
         /\ Leaves(p, "chk") => (g'[p].pc = "req" <=> token = NilToken)
         /\ Leaves(p, "req") => g'[p].nExch = 1]_vars

\* A call is going on to the exchange at the very instant at which the
\* cached token expires.
C13_Witness ==
    \E p \in Callers :
        /\ g[p].pc = "rpc" /\ g[p].nExch = 1
        /\ token # NilToken
        /\ token[1].expiresAt = now

\* C14: a call whose context is cancelled while its exchange is in flight
\* gets no response: its next step is the failure return with the
\* cancellation error, and neither the cancellation nor that return changes
\* the cached token or its expiry.
C14_CancelKeepsCache ==
    [][\A p \in Callers :
         /\ (~g[p].cancelled /\ g'[p].cancelled) => token' = token
         /\ (g[p].pc = "rpc" /\ g[p].cancelled /\ g'[p].pc # "rpc")
              => /\ HasReturned(p)'
                 /\ g'[p].ret = [key   |-> "",
                                 value |-> "",
                                 err   |-> Errorf("failed to get JWT token: ",
                                                  StatusErr("Canceled"))]
                 /\ token' = token]_vars

\* A cancelled call has failed, the cache still holds a valid token, and the
\* other call has been served that token without an exchange.
C14_Witness ==
    \E p, q \in Callers :
        /\ g[p].pc = "done"
        /\ g[p].ret.err = Errorf("failed to get JWT token: ",
                                 StatusErr("Canceled"))
        /\ CacheValidAt(now)
        /\ g[q].pc = "done" /\ g[q].nExch = 0
        /\ g[q].ret.value = "Bearer " \o token[1].token

\* The gRPC status of the error e, as status.Code reports it.
KindOf(e) == e.status

\* C15 as stated: a call that is under way can always take a step, the
\* cached path returns in one step, and a call cancelled during its exchange
\* returns in its next step an error of the cancelled kind.
C15_AsStated ==
    [][\A p \in Callers :
         /\ g[p].pc \notin {"idle", "done"} => ENABLED CallStep(p)
         /\ Leaves(p, "hit") => HasReturned(p)'
         /\ (g[p].pc = "rpc" /\ g[p].cancelled /\ g'[p].pc # "rpc")
              => /\ HasReturned(p)'
                 /\ KindOf(g'[p].ret.err) = "Canceled"]_vars

\* C16: a call through the interceptor calls GetAuthHeader, GetJwtToken and
\* the invoker at most once each; after a failed exchange the interceptor's
\* next step ends the call with an error, the invoker not called.
C16_NoRetry ==
    [][\A p \in Callers :
         /\ g'[p].nAuth <= 1 /\ g'[p].nExch <= 1 /\ g'[p].nInv <= 1
         /\ (HasReturned(p) /\ g[p].ret.err # NoErr)
              => g[p].nExch = 1 /\ g[p].nInv = 0
         /\ (Leaves(p, "icept") /\ g[p].ret.err # NoErr)
              => /\ g'[p].pc = "done"
                 /\ g'[p].result # NoErr
                 /\ g'[p].nExch = 1 /\ g'[p].nAuth = 1 /\ g'[p].nInv = 0
         /\ (Leaves(p, "done") /\ g[p].mode = "rpc") => g'[p].pc = "idle"]_vars

\* An RPC has ended with an error after a single failed exchange.
C16_Witness ==
    \E p \in Callers :
        /\ g[p].pc = "done" /\ g[p].mode = "rpc"
        /\ g[p].result = InterceptError(g[p].ret.err)
        /\ g[p].ret.err # NoErr
        /\ g[p].nExch = 1 /\ g[p].nAuth = 1 /\ g[p].nInv = 0

\* C17 as stated: the kind of the error GetJwtToken produced is the kind of
\* the error GetAuthHeader returns and of the error the interceptor returns,
\* and a failure is never turned into a success.
C17_AsStated ==
    [][\A p \in Callers :
         /\ (g[p].pc = "rpc" /\ g'[p].pc \notin {"rpc", "store"})
              => /\ g'[p].ret.err # NoErr
                 /\ KindOf(g'[p].ret.err) \in FailureCodes(g[p].cancelled)
         /\ (Leaves(p, "icept") /\ g[p].ret.err # NoErr)
              => /\ g'[p].result # NoErr
                 /\ KindOf(g'[p].result) = KindOf(g[p].ret.err)]_vars

\* The response r lacks its token or its expiry.
IsMalformed(r) == r.token = "" \/ r.expires = NilTimestamp

\* C12 as stated: when the service answers with a response that lacks the
\* token or the expiry, GetAuthHeader returns an error and no header, and
\* the cache is not replaced.
C12_AsStated ==
    [][\A p \in Callers :
         /\ (g[p].pc = "rpc" /\ g'[p].pc # "rpc" /\ IsMalformed(g'[p].resp))
              => /\ HasReturned(p)'
                 /\ g'[p].ret.err # NoErr
                 /\ g'[p].ret.key = "" /\ g'[p].ret.value = ""
         /\ (g[p].pc \in {"store", "fin"} /\ IsMalformed(g[p].resp))
              => token' = token
         /\ (Leaves(p, "fin") /\ IsMalformed(g[p].resp))
              => g'[p].ret.err # NoErr]_vars

\* ------------------------------------------------- claims about NewAuth

\* The positions of the separator in the key k.
Seps(k) == {i \in 1..Len(k) : k[i] = "."}

HasOneSeparator(k) == Cardinality(Seps(k)) = 1

\* The parts of a key with one separator.
BeforeSep(k) == SubSeq(k, 1, (CHOOSE i \in Seps(k) : TRUE) - 1)

AfterSep(k) == SubSeq(k, (CHOOSE i \in Seps(k) : TRUE) + 1, Len(k))

\* The digits of the text n of a number, its sign removed.
DigitsOf(n) == IF n # << >> /\ n[1] \in {"+", "-"} THEN Tail(n) ELSE n

IsNegative(n) == n # << >> /\ n[1] = "-"

\* n is a decimal numeral: an optional sign and one or more digits.
IsDecimal(n) ==
    /\ DigitsOf(n) # << >>
    /\ \A i \in 1..Len(DigitsOf(n)) : IsDigit(DigitsOf(n)[i])

\* The magnitude with digits a exceeds the magnitude with digits b, neither
\* having leading zeros: a is longer, or as long and larger at the first
\* digit where they differ.
Exceeds(a, b) ==
    \/ Len(a) > Len(b)
    \/ /\ Len(a) = Len(b)
       /\ \E i \in 1..Len(a) :
            /\ DigitVal(a[i]) > DigitVal(b[i])
            /\ \A j \in 1..(i - 1) : a[j] = b[j]

\* n is the text of a decimal integer within [-2^63, 2^63 - 1].
IsInt64Text(n) ==
    /\ IsDecimal(n)
    /\ ~Exceeds(StripZeros(DigitsOf(n)),
                IF IsNegative(n) THEN MinInt64Numeral ELSE MaxInt64Numeral)

\* The number a string of at most nine digits denotes.
RECURSIVE ValueOf(_)
ValueOf(d) ==
    IF d = << >> THEN 0
    ELSE ValueOf(SubSeq(d, 1, Len(d) - 1)) * 10 + DigitVal(d[Len(d)])

\* The int64 v is the integer the text n denotes.
SameInteger(n, v) ==
    /\ v.mag = StripZeros(DigitsOf(n))
    /\ v.neg = (IsNegative(n) /\ v.mag # <<"0">>)
    /\ Len(DigitsOf(n)) <= 9 =>
         (IF v.neg THEN 0 - ValueOf(v.mag) ELSE ValueOf(v.mag))
           = (IF IsNegative(n) THEN 0 - ValueOf(DigitsOf(n))
                               ELSE ValueOf(DigitsOf(n)))

\* The key k has the form "s.n" with non-empty s and integer n.
IsWellFormed(k) ==
    /\ HasOneSeparator(k)
    /\ BeforeSep(k) # << >>
    /\ IsInt64Text(AfterSep(k))

\* The three errors of NewAuth's validation.
IsFormatError(e) ==
    e.msg = "invalid API key format. Expected format: 'secret.keyID'"

IsEmptySecretError(e) ==
    e.msg = "invalid API key format. Secret cannot be empty"

IsInvalidKeyID(e, n) ==
    \E why \in {"invalid syntax", "value out of range"} :
       e.msg = "invalid key ID: strconv.ParseInt: parsing \"" \o Join(n)
                 \o "\": " \o why

\* C18: for every key of the form "s.n" with non-empty s and integer n,
\* NewAuth succeeds and the Auth it returns has secret exactly s and keyID
\* exactly n.
C18_ParsesWellFormed ==
    (made # << >> /\ IsWellFormed(apiKey))
      => /\ made[1].err = NoErr
         /\ made[1].auth # << >>
         /\ made[1].auth[1].secret = BeforeSep(apiKey)
         /\ SameInteger(AfterSep(apiKey), made[1].auth[1].keyID)

\* NewAuth has parsed "a.-07" into the secret "a" and the key ID -7.
C18_Witness ==
    /\ made # << >>
    /\ apiKey = <<"a", ".", "-", "0", "7">>
    /\ made[1].err = NoErr
    /\ made[1].auth[1].secret = <<"a">>
    /\ made[1].auth[1].keyID = [neg |-> TRUE, mag |-> <<"7">>]

\* C19 as stated: a key with zero or several separators fails with the
\* format error, a key whose part before the separator is empty fails with
\* the empty-secret error, and a key whose part after the separator is empty
\* or not a base-10 integer fails with the invalid-key-ID error.
C19_AsStated ==
    made # << >> =>
      /\ ~HasOneSeparator(apiKey) => IsFormatError(made[1].err)
      /\ (HasOneSeparator(apiKey) /\ BeforeSep(apiKey) = << >>)
           => IsEmptySecretError(made[1].err)
      /\ (HasOneSeparator(apiKey) /\ ~IsInt64Text(AfterSep(apiKey)))
           => IsInvalidKeyID(made[1].err, AfterSep(apiKey))

\* C19: a key with zero or several separators fails with the format error;
\* a key with one separator and nothing before it fails with the
\* empty-secret error; a key with one separator, a non-empty secret and a
\* part after the separator that is empty or not a base-10 integer fails
\* with the invalid-key-ID error.
C19_Classifies ==
    made # << >> =>
      /\ ~HasOneSeparator(apiKey) => IsFormatError(made[1].err)
      /\ (HasOneSeparator(apiKey) /\ BeforeSep(apiKey) = << >>)
           => IsEmptySecretError(made[1].err)
      /\ (HasOneSeparator(apiKey) /\ BeforeSep(apiKey) # << >>
            /\ ~IsInt64Text(AfterSep(apiKey)))
           => IsInvalidKeyID(made[1].err, AfterSep(apiKey))

\* NewAuth has rejected "a.", whose key ID is empty, with the
\* invalid-key-ID error.
C19_Witness ==
    /\ made # << >>
    /\ apiKey = <<"a", ".">>
    /\ IsInvalidKeyID(made[1].err, << >>)

\* C20: whenever NewAuth returns an error it returns a nil Auth and has
\* created no connection, and every malformed key makes it return an error.
C20_NilOnError ==
    made # << >> =>
      /\ made[1].err # NoErr
           => (made[1].auth = << >> /\ ~made[1].dialed)
      /\ ~IsWellFormed(apiKey)
           => (made[1].err # NoErr /\ made[1].auth = << >>
                 /\ ~made[1].dialed)

\* NewAuth has rejected "a.7a" at its last check, the key ID, and returned
\* nil and no connection.
C20_Witness ==
    /\ made # << >>
    /\ apiKey = <<"a", ".", "7", "a">>
    /\ made[1].err # NoErr
    /\ made[1].auth = << >>
    /\ ~made[1].dialed

\* The text of 2^63, one more than the largest int64.
OverflowText ==
    <<"9", "2", "2", "3", "3", "7", "2", "0", "3", "6",
      "8", "5", "4", "7", "7", "5", "8", "0", "8">>

\* C28: the key-ID part of a key with one separator and a non-empty secret
\* is accepted iff it denotes a base-10 integer within [-2^63, 2^63 - 1]; a
\* decimal integer outside that range makes NewAuth fail with the
\* invalid-key-ID error, and no Auth with a wrapped or truncated key ID is
\* returned.
C28_Int64Range ==
    (made # << >> /\ HasOneSeparator(apiKey) /\ BeforeSep(apiKey) # << >>)
      => /\ made[1].err = NoErr <=> IsInt64Text(AfterSep(apiKey))
         /\ (IsDecimal(AfterSep(apiKey)) /\ ~IsInt64Text(AfterSep(apiKey)))
              => /\ made[1].auth = << >>
                 /\ made[1].err.msg
                      = "invalid key ID: strconv.ParseInt: parsing \""
                          \o Join(AfterSep(apiKey))
                          \o "\": value out of range"

\* NewAuth has rejected "a.9223372036854775808", whose key ID is 2^63.
C28_Witness ==
    /\ made # << >>
    /\ apiKey = <<"a", ".">> \o OverflowText
    /\ made[1].auth = << >>
    /\ made[1].err # NoErr

\* C27: the cache is replaced as a whole.  Every step that changes the cache
\* is the store of one call and leaves in it exactly the token and the
\* expiry of the response of that call's successful exchange, and after
\* every step a present entry is the pair of the one response stored last,
\* never the token of one response with the expiry of another.
C27_ReplacedWhole ==
    [][/\ token' # token
            => \E p \in Callers :
                  /\ g[p].pc = "store"
                  /\ g[p].resp \in Responses
                  /\ token' = EntryOf(g[p].resp)
       /\ token' # NilToken
            => /\ lastWrite' \in Responses
               /\ token'[1].token = lastWrite'.token
               /\ token'[1].expiresAt = lastWrite'.expires]_vars

\* Between the steps of two interleaved calls: one call has stored its
\* response and the other is about to store a response that differs from
\* the entry in both fields.
C27_Witness ==
    \E p, q \in Callers :
        /\ p # q
        /\ g[q].pc = "fin" /\ token = EntryOf(g[q].resp)
        /\ g[p].pc = "store"
        /\ g[p].resp.token # token[1].token
        /\ g[p].resp.expires # token[1].expiresAt

\* C25: EmailAddress.String returns "Name <Email>" when Name is not empty
\* and exactly Email when Name is empty.
C25_String ==
    str # << >> =>
      /\ addr.Name # "" => str[1] = addr.Name \o " <" \o addr.Email \o ">"
      /\ addr.Name = "" => str[1] = addr.Email

\* The address of John Doe has been formatted with his name.
C25_Witness ==
    /\ str = <<"John Doe <john@example.com>">>
    /\ addr = [Email |-> "john@example.com", Name |-> "John Doe"]

\* ------------------------------------------------- claims about clients

\* What the constructor of client c returned, and the client it returned.
ResultOf(c) == clients[c][1]

ClientOf(c) == clients[c][1].client[1]

\* A constructor of client c has been called with the auth a.
MadeWith(c, a) == clients[c] # << >> /\ clients[c][1].with = a

ConnFor(v, conn) ==
    /\ conn # NilConn
    /\ conn.target = v.ServerAddress
    /\ conn.userAgent = v.UserAgent
    /\ conn.InsecureSkipVerify = v.Insecure
    /\ conn.intercepted

\* C23: a client made with a nil config is the client made with the values
\* "api.sendlix.com:443", "sendlix-go-sdk/1.0.0" and Insecure false; a client
\* made with a config that is not nil holds that very config and uses its
\* values, and no step alters the config of the program.
C23_Config ==
    [][/\ config' = config
       /\ \A c \in Clients :
            (clients[c] = << >> /\ clients'[c] # << >>
               /\ clients'[c][1].with \in {TheAuth, TypedNilAuth})
              => LET bc == clients'[c][1].client[1]
                     dv == [ServerAddress |-> "api.sendlix.com:443",
                            UserAgent     |-> "sendlix-go-sdk/1.0.0",
                            Insecure      |-> FALSE]
                 IN  /\ clients'[c][1].err = NoErr
                     /\ config = << >>
                          => /\ DefaultClientConfig = dv
                             /\ bc.config[1].val = dv
                             /\ ~bc.config[1].given
                             /\ ConnFor(dv, bc.conn)
                     /\ config # << >>
                          => /\ bc.config[1].given
                             /\ bc.config[1].val = config[1]
                             /\ ConnFor(config[1], bc.conn)]_vars

\* One client has been made with the custom insecure config and holds it,
\* the other has been made and the config is as it was.
C23_Witness ==
    /\ config # << >> /\ config[1].ServerAddress = "custom.example.com:9090"
    /\ MadeWith("email", TheAuth)
    /\ ClientOf("email").config[1].given
    /\ ClientOf("email").conn.target = "custom.example.com:9090"
    /\ ClientOf("email").conn.InsecureSkipVerify
    /\ MadeWith("group", TheAuth)

\* C24: Close never panics, on a client with a connection or without one,
\* however often it is called; the first Close of a client with a connection
\* closes it, and a closed connection stays closed whatever is called
\* afterwards.
C24_CloseIdempotent ==
    [][\A c \in Clients :
         HasClient(c)
           => /\ ClientOf(c).ret # <<Panic>>
              /\ ClientOf(c)'.ret # <<Panic>>
              /\ (ClientOf(c).conn # NilConn /\ ClientOf(c).ret = << >>
                    /\ ClientOf(c)'.ret # << >>)
                   => (ClientOf(c)'.ret = <<NoErr>>
                         /\ ClientOf(c)'.conn.state = "closed")
              /\ (ClientOf(c).conn # NilConn
                    /\ ClientOf(c).conn.state = "closed")
                   => ClientOf(c)'.conn.state = "closed"
              /\ ClientOf(c).conn = NilConn
                   => (ClientOf(c)'.conn = NilConn
                         /\ ClientOf(c)'.ret \in {<< >>, <<NoErr>>})]_vars

\* One client has been closed more than once, the last Close returning the
\* error of a closed connection, and a client without a connection has been
\* closed too.
C24_Witness ==
    /\ HasClient("email")
    /\ ClientOf("email").conn # NilConn
    /\ ClientOf("email").conn.state = "closed"
    /\ ClientOf("email").ret = <<StatusErr("Canceled")>>
    /\ HasClient("group")
    /\ ClientOf("group").conn = NilConn
    /\ ClientOf("group").ret = <<NoErr>>

\* The status of the error in the text of a wrapped error: the wrapping
\* keeps the text of the status.
Mentions(e, code) ==
    e.msg = "failed to get JWT token: rpc error: code = " \o code

C26_CredentialImmutable ==
    [][/\ made' = made
       /\ token' # token
            => \E p \in Callers :
                  /\ g[p].pc = "store" /\ g'[p].pc = "fin"
                  /\ g[p].nAuth = 1
       /\ \A p \in Callers :
            g'[p].req # NoReq
              => /\ g'[p].pc = "rpc"
                 /\ g'[p].req[1].request.secret = BeforeSep(apiKey)
                 /\ SameInteger(AfterSep(apiKey),
                                g'[p].req[1].request.keyID)]_vars

\* A later exchange: a token is cached, a client has been closed, and the
\* request in flight carries the secret "abc123" and the key ID 456.
C26_Witness ==
    /\ token # NilToken
    /\ \E c \in Clients :
          HasClient(c) /\ ClientOf(c).ret # << >>
    /\ g[Main].req # NoReq
    /\ g[Main].req[1].request
         = [keyID  |-> [neg |-> FALSE, mag |-> <<"4", "5", "6">>],
            secret |-> <<"a", "b", "c", "1", "2", "3">>]

\* C29: every exchange goes over the connection NewAuth made, to
\* "api.sendlix.com:443" with the certificate verified, whatever
\* ServerAddress and Insecure the config of the clients holds.
C29_FixedEndpoint ==
    /\ made[1].auth[1].client.target = "api.sendlix.com:443"
    /\ ~made[1].auth[1].client.InsecureSkipVerify
    /\ \A p \in Callers :
          g[p].req # NoReq
            => /\ g[p].req[1].conn.target = "api.sendlix.com:443"
               /\ ~g[p].req[1].conn.InsecureSkipVerify
               /\ ~g[p].req[1].conn.intercepted

\* An RPC made through a client whose config has another address and
\* Insecure true has its exchange in flight to "api.sendlix.com:443".
C29_Witness ==
    /\ config # << >>
    /\ config[1].ServerAddress = "custom.example.com:9090"
    /\ config[1].Insecure
    /\ \E c \in Clients :
          /\ Usable(c)
          /\ ClientOf(c).conn.target = "custom.example.com:9090"
          /\ ClientOf(c).conn.InsecureSkipVerify
    /\ g[Main].mode = "rpc"
    /\ g[Main].req # NoReq
    /\ g[Main].req[1].conn.target = "api.sendlix.com:443"

\* The errors with which the operations reject their arguments.
ValidationMessages ==
    {"from email is required", "at least one recipient is required",
     "subject is required", "either HTML or text content is required",
     "group ID is required", "at least one email is required",
     "email address is required"}
      \cup {"email address is required for email at index " \o Itoa(i) :
              i \in 0..(MaxEmails - 1)}

\* C30: validation precedes the RPC.  A step in which SendEmail,
\* SendGroupEmail, InsertEmailToGroup, RemoveEmailFromGroup or
\* CheckEmailInGroup rejects its arguments is the whole call: the operation
\* has returned nil and the error, the interceptor has not run,
\* GetAuthHeader has not been called, no exchange and no RPC has been made,
\* and the cache is as it was.
C30_ValidationFirst ==
    [][\A p \in Callers :
         (g[p].pc = "idle" /\ g'[p].op # ""
            /\ g'[p].out.err.msg \in ValidationMessages)
           => /\ g'[p].pc = "done"
              /\ g'[p].out.resp = << >>
              /\ g'[p].out.err # NoErr
              /\ g'[p].nAuth = 0 /\ g'[p].nExch = 0 /\ g'[p].nInv = 0
              /\ g'[p].req = NoReq
              /\ token' = token /\ lastWrite' = lastWrite]_vars

\* With a token in the cache, InsertEmailToGroup has rejected a list whose
\* second entry has no Email and has made no call.
C30_Witness ==
    /\ token # NilToken
    /\ g[Main].pc = "done"
    /\ g[Main].op = "InsertEmailToGroup"
    /\ g[Main].out.resp = << >>
    /\ g[Main].out.err.msg
         = "email address is required for email at index 1"
    /\ g[Main].nAuth = 0 /\ g[Main].nInv = 0

\* The checks of NewAuth that the key k fails, numbered in the order of the
\* code: 1 the count of the separators, 2 the secret, 3 the key ID.  The
\* secret and the key ID of a key are what stands before its first and
\* after its last separator.
FailedChecks(k) ==
    LET first == IF Seps(k) = {} THEN Len(k) + 1
                 ELSE CHOOSE i \in Seps(k) : \A j \in Seps(k) : i <= j
        last  == IF Seps(k) = {} THEN 0
                 ELSE CHOOSE i \in Seps(k) : \A j \in Seps(k) : i >= j
    IN  (IF Cardinality(Seps(k)) # 1 THEN {1} ELSE {})
          \cup (IF first = 1 THEN {2} ELSE {})
          \cup (IF ~IsInt64Text(SubSeq(k, last + 1, Len(k))) THEN {3} ELSE {})

\* The checks whose error e is.
ReportedChecks(e, k) ==
    (IF IsFormatError(e) THEN {1} ELSE {})
      \cup (IF IsEmptySecretError(e) THEN {2} ELSE {})
      \cup (IF \E n \in {SubSeq(k, i, Len(k)) : i \in 1..(Len(k) + 1)} :
                 IsInvalidKeyID(e, n)
            THEN {3} ELSE {})

\* C33: NewAuth reports exactly one error for a malformed key, that of the
\* earliest check the key fails in the order separator count, secret, key
\* ID: "." and ".abc" fail with the empty-secret error and ".." with the
\* format error.
C33_EarliestCheckWins ==
    made # << >> =>
      /\ FailedChecks(apiKey) = {} <=> made[1].err = NoErr
      /\ FailedChecks(apiKey) # {}
           => /\ Cardinality(ReportedChecks(made[1].err, apiKey)) = 1
              /\ \A n \in ReportedChecks(made[1].err, apiKey) :
                    /\ n \in FailedChecks(apiKey)
                    /\ \A m \in FailedChecks(apiKey) : n <= m
      /\ apiKey \in {<<".">>, NoSecretKey}
           => (IsEmptySecretError(made[1].err)
                 /\ 3 \in FailedChecks(apiKey))
      /\ apiKey = <<".", ".">> => IsFormatError(made[1].err)

\* NewAuth has rejected ".abc", which has neither a secret nor a numeric key
\* ID, with the empty-secret error.
C33_Witness ==
    /\ made # << >>
    /\ apiKey = NoSecretKey
    /\ FailedChecks(apiKey) = {2, 3}
    /\ IsEmptySecretError(made[1].err)

\* C36: a response whose expiry is not after the current time is handled as
\* any other: the cache stores it and the call returns its token without an
\* error.  A call that enters afterwards finds the entry, reads a clock that
\* has not gone back, finds the entry not valid and makes an exchange of its
\* own.
C36_ExpiredResponseAccepted ==
    [][/\ now' >= now
       /\ \A p \in Callers :
            /\ (Leaves(p, "store") /\ g[p].resp.expires <= now)
                 => /\ token' = EntryOf(g[p].resp)
                    /\ g'[p].pc = "fin"
            /\ (Leaves(p, "fin") /\ g[p].resp.expires <= now)
                 => /\ HasReturned(p)'
                    /\ g'[p].ret = [key   |-> "authorization",
                                    value |-> "Bearer " \o g[p].resp.token,
                                    err   |-> NoErr]
            /\ (Leaves(p, "chk") /\ token # NilToken) => g'[p].pc = "now"
            /\ Leaves(p, "now") => g'[p].pc = "exp" /\ g'[p].tnow = now
            /\ (Leaves(p, "exp") /\ token = EntryOf(lastWrite)
                                 /\ lastWrite.expires <= g[p].tnow)
                 => g'[p].pc = "req"
            /\ Leaves(p, "req") => g'[p].pc = "rpc" /\ g'[p].nExch = 1]_vars

\* One caller has returned the token of a response that has expired, the
\* cache holds that response, and the other caller, having found it there,
\* is in an exchange of its own.
C36_Witness ==
    \E p, q \in Callers :
        /\ g[p].pc = "done" /\ g[p].mode = "direct" /\ g[p].ret.err = NoErr
        /\ token = EntryOf(lastWrite) /\ lastWrite.expires <= now
        /\ g[p].ret.value = "Bearer " \o lastWrite.token
        /\ q # p /\ g[q].pc = "rpc" /\ g[q].nExch = 1


\* GetAuthHeader has returned an error to caller p, who has not yet gone on.
HasFailed(p) == HasReturned(p) /\ g[p].ret.err # NoErr

\* C34: the failure of an exchange leaves nothing behind in the provider.
\* While one caller holds the error of a failed GetAuthHeader, the call of
\* another that finds the cache empty or not valid goes on to an exchange of
\* its own, one and no more, and when that exchange answers the call stores
\* the answer and returns its token without an error.  The failing step
\* itself changes nothing but the state of the caller it fails.
C34_FailureDoesNotPoison ==
    [][\A p, q \in Callers :
         /\ (g[p].pc = "rpc" /\ HasFailed(p)')
              => <<now, token, lastWrite, ctorVars>>'
                   = <<now, token, lastWrite, ctorVars>>
         /\ (HasFailed(p) /\ q # p)
              => /\ (Leaves(q, "chk") /\ token = NilToken) => g'[q].pc = "req"
                 /\ (Leaves(q, "exp") /\ ~CacheValidAt(g[q].tnow))
                      => g'[q].pc = "req"
                 /\ Leaves(q, "req")
                      => /\ g'[q].pc = "rpc"
                         /\ g[q].nExch = 0 /\ g'[q].nExch = 1
                 /\ (Leaves(q, "rpc") /\ ~HasFailed(q)')
                      => g'[q].pc = "store" /\ g'[q].resp \in Responses
                 /\ Leaves(q, "store")
                      => g'[q].pc = "fin" /\ token' = EntryOf(g[q].resp)
                 /\ Leaves(q, "fin")
                      => /\ HasReturned(q)'
                         /\ g'[q].ret = [key   |-> "authorization",
                                         value |-> "Bearer " \o g[q].resp.token,
                                         err   |-> NoErr]]_vars

\* One caller holds the error of its failed call, and the other, whose call
\* found no valid token, has made one exchange and has the token of the
\* answer, which is in the cache.
C34_Witness ==
    \E p, q \in Callers :
        /\ q # p
        /\ g[p].pc = "done" /\ g[p].mode = "direct" /\ HasFailed(p)
        /\ g[p].nExch = 1
        /\ g[q].pc = "done" /\ g[q].mode = "direct" /\ g[q].nExch = 1
        /\ g[q].ret.err = NoErr
        /\ token = EntryOf(lastWrite)
        /\ g[q].ret.value = "Bearer " \o lastWrite.token


\* The places of the list emails whose entry has no Email.
WithoutEmail(emails) == {i \in 1..Len(emails) : emails[i].Email = ""}

\* The least number of a set of numbers that is not empty.
Least(S) == CHOOSE i \in S : \A j \in S : i <= j

\* C31: InsertEmailToGroup called with a group ID and a list that are not
\* empty.  If some entry has no Email the call has returned nil and an error
\* that names the first such place, counted from 0, and nothing was sent: the
\* stub was not called, nor GetAuthHeader, nor the invoker.  If every entry
\* has an Email the stub was called once, with a request that has the group
\* ID, the substitutions and, place by place, the Email and the Name of every
\* entry of the list, and what goes to the invoker, once at most, is that
\* request.
C31_AllOrNothing ==
    \A p \in Callers :
       (g[p].api = "InsertEmailToGroup"
          /\ g[p].args[1].groupID # "" /\ Len(g[p].args[1].emails) > 0)
         => LET a   == g[p].args[1]
                bad == WithoutEmail(a.emails)
            IN  /\ bad # {}
                     => /\ g[p].pc = "done"
                        /\ g[p].out.resp = << >>
                        /\ g[p].out.err
                             = NewError("email address is required for "
                                  \o "email at index "
                                  \o Digits[Least(bad)])
                        /\ g[p].call = NoCall /\ g[p].passed = << >>
                        /\ g[p].nAuth = 0 /\ g[p].nExch = 0 /\ g[p].nInv = 0
                /\ bad = {}
                     => /\ g[p].call # NoCall
                        /\ g[p].call[1].method = "InsertEmailToGroup"
                        /\ g[p].call[1].req.GroupId = a.groupID
                        /\ g[p].call[1].req.Substitutions = a.substitutions
                        /\ Len(g[p].call[1].req.Emails) = Len(a.emails)
                        /\ \A i \in 1..Len(a.emails) :
                              /\ g[p].call[1].req.Emails[i].Email
                                   = a.emails[i].Email
                              /\ g[p].call[1].req.Emails[i].Name
                                   = a.emails[i].Name
                        /\ g[p].nInv <= 1
                        /\ g[p].nInv = 1 => g[p].passed = g[p].call
                        /\ g[p].passed \in {<< >>, g[p].call}

\* InsertEmailToGroup was given a list whose two entries have no Email and
\* has returned the error of the first without sending anything.
C31_Witness ==
    /\ g[Main].api = "InsertEmailToGroup"
    /\ g[Main].args[1].groupID = "x"
    /\ g[Main].args[1].emails = <<ZeroAddress, ZeroAddress>>
    /\ g[Main].pc = "done"
    /\ g[Main].out.err.msg = "email address is required for email at index 0"
    /\ g[Main].call = NoCall /\ g[Main].nInv = 0


\* What caller p is after a call of InsertEmailToGroup(ctx, groupID, emails,
\* substitutions) made when it is idle, the name of the method called and
\* its arguments left out.
AfterInsert(p, groupID, emails, substitutions) ==
    LET err == ValidateInsert(groupID, emails)
        to  == Set(p, Begun("InsertEmailToGroup", err)
                        @@ [call |-> IF err # NoErr THEN NoCall
                                     ELSE StubCall("InsertEmailToGroup",
                                            InsertEmailToGroupRequest(groupID,
                                               emails, substitutions),
                                            clients["group"][1].client[1].conn)])
    IN  [to[p] EXCEPT !.api = "", !.args = << >>]

\* C32: InsertSingleEmailToGroup(ctx, g, e, s) does what InsertEmailToGroup(
\* ctx, g, [e], s) does.  The step in which it is called leaves the caller
\* where the call of InsertEmailToGroup with the list of the one entry e
\* leaves it: rejected with the same error and nothing sent, or in the same
\* call of the stub with the same request.  The steps that follow are those
\* of that call, and when the RPC is over both methods return the same
\* response or the same error made of what the RPC returned.
C32_SingleIsListOfOne ==
    [][\A p \in Callers :
         /\ (g[p].pc = "idle" /\ g'[p].api = "InsertSingleEmailToGroup")
              => LET a == g'[p].args[1]
                 IN  [g'[p] EXCEPT !.api = "", !.args = << >>]
                       = AfterInsert(p, a.groupID, <<a.email>>,
                                     a.substitutions)
         /\ (g[p].pc # "idle"
               /\ g[p].api \in {"InsertSingleEmailToGroup",
                                "InsertEmailToGroup"})
              => /\ g'[p].pc # "idle"
                      => g'[p].api = g[p].api /\ g'[p].args = g[p].args
                           /\ g'[p].call = g[p].call
                 /\ Leaves(p, "inv")
                      => /\ g'[p].pc = "done"
                         /\ g[p].passed = g[p].call
                         /\ g'[p].out
                              = IF g'[p].result = NoErr
                                THEN OpResult(<<"InsertEmailToGroup">>, NoErr)
                                ELSE OpResult(<< >>,
                                       Errorf("failed to insert emails to "
                                                \o "group: ", g'[p].result))
                 /\ (Leaves(p, "icept") /\ g'[p].pc # "inv")
                      => /\ g'[p].pc = "done"
                         /\ g'[p].out
                              = OpResult(<< >>,
                                  Errorf("failed to insert emails to group: ",
                                         g'[p].result))]_vars

\* InsertSingleEmailToGroup has sent the request of the list of its one
\* entry and has returned the response of the RPC.
C32_Witness ==
    /\ g[Main].api = "InsertSingleEmailToGroup"
    /\ g[Main].pc = "done" /\ g[Main].nInv = 1
    /\ g[Main].out = OpResult(<<"InsertEmailToGroup">>, NoErr)
    /\ g[Main].args[1].email = [Email |-> "c@d.e", Name |-> "N"]
    /\ g[Main].passed[1].req
         = [Emails        |-> <<[Email |-> "c@d.e", Name |-> "N"]>>,
            GroupId       |-> "x",
            Substitutions |-> <<"company", "x">>]


\* C37: whenever the interceptor has called the invoker, the outgoing
\* metadata of the context it passed is the caller's, pair by pair and in the
\* same order, with the one pair of the header after them, and the method,
\* the request, the reply, the connection and the call options it passed are
\* those the stub called it with.
C37_OnlyAdds ==
    \A p \in Callers :
       g[p].nInv = 1
         => /\ Len(g[p].ctx) = Len(g[p].md) + 1
            /\ \A i \in 1..Len(g[p].md) : g[p].ctx[i] = g[p].md[i]
            /\ g[p].ctx[Len(g[p].ctx)] = <<g[p].ret.key, g[p].ret.value>>
            /\ g[p].call # NoCall /\ g[p].passed # << >>
            /\ g[p].passed[1].method = g[p].call[1].method
            /\ g[p].passed[1].req = g[p].call[1].req
            /\ g[p].passed[1].reply = g[p].call[1].reply
            /\ g[p].passed[1].cc = g[p].call[1].cc
            /\ g[p].passed[1].opts = g[p].call[1].opts
            /\ g[p].passed[1].cc = clients[IF g[p].op \in {"SendEmail",
                                             "SendEMLEmail", "SendGroupEmail"}
                                           THEN "email" ELSE "group"][1]
                                      .client[1].conn

\* The invoker of a RemoveEmailFromGroup is running: the caller's context
\* had a pair, which is still the first, the header is the second, and the
\* request is the one the operation built.
C37_Witness ==
    /\ g[Main].pc = "inv" /\ g[Main].nInv = 1
    /\ g[Main].md = << <<"x-request-id", "7">> >>
    /\ Len(g[Main].ctx) = 2
    /\ g[Main].ctx[1] = <<"x-request-id", "7">>
    /\ g[Main].ctx[2][1] = "authorization"
    /\ g[Main].passed[1].method = "RemoveEmailFromGroup"
    /\ g[Main].passed[1].req = [Email |-> "x", GroupId |-> "x"]


\* The client whose stub the call of caller p went through.
Via(p) ==
    IF g[p].op \in {"SendEmail", "SendEMLEmail", "SendGroupEmail"}
    THEN "email" ELSE "group"

\* The call of caller p has got its header by an exchange, and the token of
\* that header is the one in the cache.
Obtained(p) ==
    /\ g[p].op # "" /\ HasReturned(p)
    /\ g[p].nExch = 1 /\ g[p].ret.err = NoErr
    /\ token # NilToken
    /\ g[p].ret.value = "Bearer " \o token[1].token

\* C35: the clients of a program hold the one Auth they were made with, so
\* its cache serves them all.  While the cache holds the token that a call
\* through one client obtained, a call through the other client that reads
\* the clock before the expiry of that token takes the cached path, makes no
\* exchange and returns that token; and a step that closes a client, whichever
\* it is, leaves the cache and every call under way as they were.
C35_SharedCache ==
    [][/\ \A c \in Clients :
            HasClient(c) => clients[c][1].client[1].auth = clients[c][1].with
       /\ clients' # clients
            => token' = token /\ lastWrite' = lastWrite /\ g' = g
       /\ \A p, q \in Callers :
            (Obtained(p) /\ g[q].op # "" /\ Via(q) # Via(p))
              => /\ Leaves(q, "chk") => g'[q].pc = "now"
                 /\ (Leaves(q, "exp") /\ g[q].tnow < token[1].expiresAt)
                      => g'[q].pc = "hit" /\ g'[q].nExch = 0
                 /\ Leaves(q, "hit")
                      => /\ HasReturned(q)'
                         /\ g'[q].ret = [key   |-> "authorization",
                                         value |-> g[p].ret.value,
                                         err   |-> NoErr]
                         /\ g'[q].nExch = 0
                         /\ token' = token]_vars

\* The EmailClient, through which a call obtained the token that is in the
\* cache, is closed, and the invoker of a call through the GroupClient is
\* running with that token, for which it made no exchange.
C35_Witness ==
    /\ Obtained(Main) /\ Via(Main) = "email"
    /\ clients["email"][1].client[1].conn.state = "closed"
    /\ g[Other].op = "CheckEmailInGroup" /\ Via(Other) = "group"
    /\ g[Other].pc = "inv" /\ g[Other].nExch = 0 /\ g[Other].nInv = 1
    /\ g[Other].ret.value = g[Main].ret.value
    /\ Carries(g[Other].ctx, "authorization", g[Main].ret.value)


====
